---- MODULE Spec2Model ----
(***************************************************************************)
(* Position ledgers and closure rules of the trading engine.               *)
(*                                                                         *)
(* Two ledgers exist in the repository and both are modelled:              *)
(*   - PortfolioManager (src/src/portfolio_manager.py): a dict keyed by    *)
(*     ticket, synced and evaluated by update_portfolio_state;             *)
(*   - LiveTrader (src/src/live_trader.py): a list of position dicts,      *)
(*     synced by update_open_positions_pnl and evaluated by                *)
(*     check_and_close_positions inside continuous_position_monitoring,    *)
(*     and the decision cycle run_main_trading_cycle.                      *)
(* The two objects share no state in the program; the variable component   *)
(* says which of them a behaviour exercises.                               *)
(*                                                                         *)
(* LiveTrader.run, the loop that schedules the monitoring tick and the      *)
(* decision cycle, is modelled with the two handlers as calls that return,  *)
(* raise or are interrupted.                                               *)
(*                                                                         *)
(* Units: P&L in whole account-currency units, position ages in whole      *)
(* hours, the run loop's clock in tenths of a second.                      *)
(***************************************************************************)
EXTENDS Integers, Sequences, FiniteSets, TLC

(* ------------------------------ bounds -------------------------------- *)

\* Tickets the broker hands out in one behaviour.
MaxTickets == 2
\* The instants (hours) at which the clock is observed: position ages on both
\* sides of the 4 hour limit, and the limit itself.
ClockValues == {0, 4, 5}

\* Profits the broker may report: both sides of every threshold of the rules.
PnlValues == {-50, 0, 27, 40, 75, 76}

\* Plans the reinforcement engine queues in one monitoring tick.
MaxPlans == 2

\* Tickets the broker hands out in all: a decision cycle followed call by call
\* may get more orders executed than max_reinforcements_per_cycle.
MaxCycleTickets == 6

\* Opportunities one reinforcement analysis finds.
MaxOpportunities == 4
\* New trades in one approved plan.
MaxTrades == 1
\* Plan priorities.
Priorities == {0, 1}

Tickets == 1..MaxTickets

(* ------------------- configuration of PortfolioManager ---------------- *)

profit_target == 75
stop_loss == -50
max_position_duration_hours == 4
trailing_stop_trigger_pnl == 30
trailing_stop_distance_pnl == 15

(* ------------- thresholds hard-coded in LiveTrader -------------------- *)

lt_take_profit == 75
lt_stop_loss == -50
lt_max_age_hours == 4
lt_trailing_trigger == 30
\* trailing stop level: peak_pnl * 0.7, as the fraction 7 / 10
lt_trailing_num == 7
lt_trailing_den == 10
\* LiveTrader._initialize_portfolio: the default initial balance
initial_balance == 10000
\* analyze_positions_for_reinforcement
max_reinforcements_per_cycle == 3

(* --------------------------- state ------------------------------------ *)

VARIABLES
  component,              \* "PortfolioManager" or "LiveTrader"
  now,                    \* wall clock, hours
  broker,                 \* open positions at the broker: ticket -> [time]
  next_ticket,            \* next ticket the broker assigns
  pc,                     \* position of the running handler, "idle" between
  eval_log,               \* closure evaluations of the running evaluator call
  enable_trailing_stop,   \* PortfolioManager.enable_trailing_stop
  pm_open_positions,      \* PortfolioManager.open_positions: ticket -> details
  open_positions,         \* LiveTrader.open_positions: list of position dicts
  closed_trades,          \* LiveTrader.closed_trades
  realized_pnl,           \* LiveTrader.realized_pnl
  portfolio_value,        \* LiveTrader.portfolio_value
  cooldown,               \* tickets with an unexpired reinforcement cooldown
  cycle_positions,        \* open_positions_df of the running cycle (tickets)
  cycle_log,              \* the calls the running cycle has made, in order
  reinforcement_opportunities,  \* the list the observed analysis has built
  all_price_data,         \* the running cycle's all_price_data, until checked
  cycle_period_seconds,               \* LiveTrader.cycle_period_seconds
  position_update_frequency_seconds,  \* LiveTrader.position_update_frequency_seconds
  continuous_monitoring_enabled,      \* LiveTrader.continuous_monitoring_enabled
  instruments,            \* symbol and type of the positions others may open
  last_ticket,            \* the last ticket the broker hands out between handlers
  run_pc,                 \* position of LiveTrader.run
  wall_time,              \* time.time(), tenths of a second
  last_cycle_time,        \* LiveTrader.last_cycle_time, tenths of a second
  cycle_count,            \* LiveTrader.cycle_count
  sleep_duration,         \* the sleep the running iteration has computed
  run_log,                \* the calls of the running iteration, in order
  interrupted,            \* a KeyboardInterrupt has been raised in run
  summary_count,          \* final summaries run has logged
  iterations,             \* loop iterations begun
  execute_task,           \* the task of the studied DataAnalystAgent.execute call
  execute_result,         \* what that call returned
  trade_decision,         \* trade_decision_str of the studied dispatch
  dispatch_result,        \* the orders that dispatch has sent
  price_call,             \* the arguments of the studied entry-price call
  price_result,           \* what that call returned
  reinforcement_order,    \* the order the caller of that call then sent
  cache_now,              \* pd.Timestamp.now(), half seconds
  market_data_cache,      \* LiveTrader._market_data_cache: key -> data
  cache_timestamps,       \* LiveTrader._cache_timestamps: key -> time stored
  last_known_prices,      \* LiveTrader._last_known_prices: symbol -> quote
  cache_call,             \* the call of the market data function just returned
  cache_calls,            \* calls of the market data function so far
  config_call,            \* get_config_value: the entry read and the default
  config_result           \* what that call returned

pmVars == <<enable_trailing_stop, pm_open_positions>>
ltVars == <<open_positions, closed_trades, realized_pnl, portfolio_value,
            cooldown>>
envVars == <<component, now, broker, next_ticket>>
cycleVars == <<cycle_positions, cycle_log, reinforcement_opportunities,
               all_price_data>>
configVars == <<cycle_period_seconds, position_update_frequency_seconds,
                continuous_monitoring_enabled, instruments,
                last_ticket>>
runVars == <<configVars, run_pc, wall_time, last_cycle_time, cycle_count,
             sleep_duration, run_log, interrupted, summary_count, iterations>>
executeVars == <<execute_task, execute_result>>
dispatchVars == <<trade_decision, dispatch_result>>
priceVars == <<price_call, price_result, reinforcement_order>>
cacheVars == <<cache_now, market_data_cache, cache_timestamps,
               last_known_prices, cache_call, cache_calls>>
valueVars == <<config_call, config_result>>
pureVars == <<executeVars, dispatchVars, priceVars, cacheVars, valueVars>>
vars == <<envVars, pc, eval_log, pmVars, ltVars, cycleVars, runVars, pureVars>>

(* --------------------------- helpers ---------------------------------- *)

Max(a, b) == IF a >= b THEN a ELSE b

Min(a, b) == IF a <= b THEN a ELSE b

MinOf(S) == CHOOSE x \in S : \A y \in S : x <= y

\* The tickets of a snapshot in the order the broker lists them (ascending).
RECURSIVE SeqOfSet(_)
SeqOfSet(S) == IF S = {} THEN <<>>
               ELSE LET m == MinOf(S) IN <<m>> \o SeqOfSet(S \ {m})

RECURSIVE SumSeq(_)
SumSeq(s) == IF s = <<>> THEN 0 ELSE Head(s) + SumSeq(Tail(s))

Range(s) == {s[i] : i \in DOMAIN s}

Restrict(f, S) == [x \in S |-> f[x]]

\* The tickets for which the evaluator called close_trade.
Called(log) == {log[i].ticket : i \in {j \in DOMAIN log : log[j].calls # <<>>}}

(* ----------------------- PortfolioManager ----------------------------- *)

\* Mutation of UpdatedPeak: the peak follows the reported profit.
UpdatedPeakOverwrite(old_peak, profit) == profit

\* update_portfolio_state, tracked ticket: max(existing peak, profit).
UpdatedPeak(old_peak, profit) == Max(old_peak, profit)

\* The tracker entry of ticket t after the snapshot row (t, profit) was read.
TrackedEntry(t, profit) ==
  IF t \notin DOMAIN pm_open_positions
  THEN [open_time |-> broker[t].time, peak_pnl |-> profit]
  ELSE [pm_open_positions[t] EXCEPT
          !.peak_pnl = UpdatedPeak(pm_open_positions[t].peak_pnl, profit)]

\* Mutation of CheckPositionForClosure: the rules do not return after a match.
CheckPositionForClosureFallThrough(pnl, peak_pnl, age, trailing) ==
  (IF pnl >= profit_target THEN <<"Profit Target">> ELSE <<>>)
  \o (IF pnl <= stop_loss THEN <<"Stop Loss">> ELSE <<>>)
  \o (IF age >= max_position_duration_hours THEN <<"Max Duration">> ELSE <<>>)
  \o (IF trailing /\ peak_pnl >= trailing_stop_trigger_pnl
         /\ pnl <= peak_pnl - trailing_stop_distance_pnl
      THEN <<"Trailing Stop">> ELSE <<>>)

\* _check_position_for_closure: the comments of the close_trade calls it makes.
CheckPositionForClosure(pnl, peak_pnl, age, trailing) ==
  IF pnl >= profit_target THEN <<"Profit Target">>
  ELSE IF pnl <= stop_loss THEN <<"Stop Loss">>
  ELSE IF age >= max_position_duration_hours THEN <<"Max Duration">>
  ELSE IF trailing
          /\ peak_pnl >= trailing_stop_trigger_pnl
          /\ pnl <= peak_pnl - trailing_stop_distance_pnl
       THEN <<"Trailing Stop">>
  ELSE <<>>

\* update_portfolio_state: one sync of the tracker with the broker snapshot,
\* the closure rules applied to every row, then the clean-up of closed tickets.
\* The close_trade calls it made are answered in CloseTradeReturns.
\* (unrealized_pnl, realized_pnl and portfolio_history, which the handler also
\* writes and no rule reads, are not part of the state.)
UpdatePortfolioState ==
  /\ component = "PortfolioManager"
  /\ pc = "idle"
  /\ \E profit \in [DOMAIN broker -> PnlValues] :
       LET rows == SeqOfSet(DOMAIN broker)
           entry(t) == TrackedEntry(t, profit[t])
       IN /\ pm_open_positions' = [t \in DOMAIN broker |-> entry(t)]
          /\ eval_log' = [i \in DOMAIN rows |->
                           LET t == rows[i] IN
                           [ticket |-> t, pnl |-> profit[t],
                            peak_pnl |-> entry(t).peak_pnl,
                            age |-> now - entry(t).open_time,
                            calls |-> CheckPositionForClosure(
                                        profit[t], entry(t).peak_pnl,
                                        now - entry(t).open_time,
                                        enable_trailing_stop)]]
  /\ pc' = "close_trade"
  /\ UNCHANGED <<pureVars, runVars, envVars, enable_trailing_stop, ltVars, cycleVars>>

\* TradeExecutor.close_trade answers the calls of the evaluator: each close
\* succeeds (the position leaves the broker) or fails; the evaluator returns.
CloseTradeReturns ==
  /\ pc = "close_trade"
  /\ \E closed \in SUBSET (Called(eval_log) \cap DOMAIN broker) :
       broker' = Restrict(broker, DOMAIN broker \ closed)
  /\ eval_log' = <<>>
  /\ pc' = "idle"
  /\ UNCHANGED <<pureVars, runVars, component, now, next_ticket, pmVars, ltVars, cycleVars>>

(* ------------------------ positions at the broker --------------------- *)

\* 'BUY' if position.type == 0 else 'SELL'
Direction(position_type) == IF position_type = 0 THEN "BUY" ELSE "SELL"

\* mt5.ORDER_TYPE_BUY if position.type == 0 else mt5.ORDER_TYPE_SELL
OrderType(position_type) ==
  IF position_type = 0 THEN "ORDER_TYPE_BUY" ELSE "ORDER_TYPE_SELL"

\* The position the broker opens for a filled market order: a buy order
\* gives a position of type 0, a sell order one of type 1, and the position
\* keeps the order's comment, "UFO <type> for #<ticket>" (for_ticket).
Filled(symbol, order_type, for_ticket) ==
  [time |-> now, symbol |-> symbol,
   type |-> IF order_type = "ORDER_TYPE_BUY" THEN 0 ELSE 1,
   comment |-> for_ticket]

\* A position opened outside the reinforcement, in the instrument ins; its
\* comment names no ticket (0).
OpenedOutside(ins) ==
  [time |-> now, symbol |-> ins.symbol, type |-> ins.type, comment |-> 0]

\* The instrument of the orders whose symbol and side no rule reads.
AnInstrument == CHOOSE ins \in instruments : TRUE

(* ----------------- DynamicReinforcementEngine (cooldown) --------------- *)

\* get_reinforcement_status(position)['can_reinforce']
CanReinforce(cd, t) == t \notin cd

\* record_reinforcement(position, plan): a cooldown record for the ticket
RecordReinforcement(cd, t) == cd \cup {t}

(* --------------------------- LiveTrader ------------------------------- *)

\* The first tracked position with ticket t (next(... for p in open_positions)).
ExistingPos(t) ==
  LET idx == {i \in DOMAIN open_positions : open_positions[i].ticket = t}
  IN open_positions[MinOf(idx)]

IsTracked(t) == \E i \in DOMAIN open_positions : open_positions[i].ticket = t

\* update_open_positions_pnl, the row of a ticket found on MT5. Of the time
\* stored under 'last_update' only its presence is kept: the sync writes the
\* key, the dict a reinforcement registers has none.
SyncedPos(t, profit) ==
  IF IsTracked(t)
  THEN [ExistingPos(t) EXCEPT !.pnl = profit, !.last_update = "written"]
  ELSE [ticket |-> t, pnl |-> profit, peak_pnl |-> profit,
        last_update |-> "written",
        timestamp |-> broker[t].time, symbol |-> broker[t].symbol,
        direction |-> Direction(broker[t].type),
        original_position_ticket |-> 0]

\* Mutation of UpdateOpenPositionsPnl: the positions absent from the snapshot
\* stay in the list behind the synced ones.
UpdateOpenPositionsPnlKeepsAbsent(snap) ==
  LET rows == SeqOfSet(DOMAIN snap)
      synced == [i \in DOMAIN rows |-> SyncedPos(rows[i], snap[rows[i]])]
      gone == SelectSeq(open_positions, LAMBDA p : p.ticket \notin DOMAIN snap)
  IN <<synced \o gone, closed_trades, realized_pnl, portfolio_value>>

\* Mutation of UpdateOpenPositionsPnl: every tracked position is archived,
\* whether the snapshot reports it or not.
UpdateOpenPositionsPnlArchivesAll(snap) ==
  LET rows == SeqOfSet(DOMAIN snap)
      synced == [i \in DOMAIN rows |-> SyncedPos(rows[i], snap[rows[i]])]
      gone == open_positions
      realized == realized_pnl + SumSeq([i \in DOMAIN gone |-> gone[i].pnl])
  IN <<synced,
       closed_trades \o [i \in DOMAIN gone |->
                           [ticket |-> gone[i].ticket, pnl |-> gone[i].pnl,
                                 last_update |-> gone[i].last_update]],
       realized,
       initial_balance + realized
         + SumSeq([i \in DOMAIN synced |-> synced[i].pnl])>>

\* update_open_positions_pnl with the snapshot snap (ticket -> profit; the
\* empty function is an empty or unavailable snapshot): the new values of
\* <<open_positions, closed_trades, realized_pnl, portfolio_value>>.
UpdateOpenPositionsPnl(snap) ==
  IF DOMAIN snap = {}
  THEN <<<<>>, closed_trades, realized_pnl, portfolio_value>>
  ELSE LET rows == SeqOfSet(DOMAIN snap)
           synced == [i \in DOMAIN rows |-> SyncedPos(rows[i], snap[rows[i]])]
           gone == SelectSeq(open_positions, LAMBDA p : p.ticket \notin DOMAIN snap)
           realized == realized_pnl + SumSeq([i \in DOMAIN gone |-> gone[i].pnl])
       IN <<synced,
            closed_trades \o [i \in DOMAIN gone |->
                                [ticket |-> gone[i].ticket, pnl |-> gone[i].pnl,
                                 last_update |-> gone[i].last_update]],
            realized,
            initial_balance + realized
              + SumSeq([i \in DOMAIN synced |-> synced[i].pnl])>>

\* The snapshots get_positions() may return, with profits among values.
SnapshotsOf(values) == {<<>>} \cup [DOMAIN broker -> values]

Snapshots == SnapshotsOf(PnlValues)

\* continuous_position_monitoring, first step: update_open_positions_pnl,
\* the broker reporting profits among values.
\* run() starts a monitoring tick only while open_positions is not empty.
MonitoringSyncOf(values) ==
  /\ component = "LiveTrader"
  /\ pc = "idle"
  /\ open_positions # <<>>
  /\ \E snap \in SnapshotsOf(values) :
       LET r == UpdateOpenPositionsPnl(snap)
       IN /\ open_positions' = r[1]
          /\ closed_trades' = r[2]
          /\ realized_pnl' = r[3]
          /\ portfolio_value' = r[4]
  /\ pc' = "reinforce"
  /\ UNCHANGED <<pureVars, runVars, envVars, eval_log, pmVars, cooldown, cycleVars>>

MonitoringSync == MonitoringSyncOf(PnlValues)

\* The last ticket the broker hands out: MaxTickets to the positions opened
\* between the handlers and by the ledger's handlers, MaxCycleTickets to the
\* orders of a decision cycle that is followed call by call.
TicketLimit ==
  IF pc \in {"idle", "reinforce"} THEN last_ticket ELSE MaxCycleTickets

\* One order or instruction sent to the broker: op names it, ticket is the position it is about
\* (0 for none), open the tickets open at the broker when it is made,
\* cooling the tickets with an unexpired cooldown record at that moment and
\* next_ticket the ticket the broker assigns next.
Event(st, op, t) == [op |-> op, ticket |-> t, open |-> DOMAIN st.broker,
                     cooling |-> st.cooldown, next_ticket |-> st.next_ticket]

\* Mutation of ExecuteDynamicReinforcement: the cooldown is not consulted.
ExecuteDynamicReinforcementNoCooldown(st, t, ok) ==
  LET sent == Append(st.log, Event(st, "reinforce", t))
  IN IF ok /\ st.next_ticket <= TicketLimit
     THEN [broker |-> [x \in DOMAIN st.broker \cup {st.next_ticket} |->
                         IF x = st.next_ticket
                          THEN Filled(st.broker[t].symbol, OrderType(st.broker[t].type), t)
                         ELSE st.broker[x]],
           next_ticket |-> st.next_ticket + 1,
           cooldown |-> RecordReinforcement(st.cooldown, t),
           open_positions |-> Append(st.open_positions,
               [ticket |-> st.next_ticket, pnl |-> 0, peak_pnl |-> 0,
                timestamp |-> now, symbol |-> st.broker[t].symbol,
                direction |-> Direction(st.broker[t].type),
                last_update |-> "absent",
                original_position_ticket |-> t]),
           log |-> sent]
     ELSE [st EXCEPT !.log = sent]

\* Mutation of ExecuteDynamicReinforcement: the cooldown is recorded when the
\* order is sent, whatever the broker answers.
ExecuteDynamicReinforcementRecordsAttempt(st, t, ok) ==
  IF ~CanReinforce(st.cooldown, t)
  THEN [st EXCEPT !.log = Append(st.log, Event(st, "in_cooling_period", t))]
  ELSE LET sent == Append(st.log, Event(st, "reinforce", t))
       IN IF ok /\ st.next_ticket <= TicketLimit
          THEN [broker |-> [x \in DOMAIN st.broker \cup {st.next_ticket} |->
                              IF x = st.next_ticket
                          THEN Filled(st.broker[t].symbol, OrderType(st.broker[t].type), t)
                              ELSE st.broker[x]],
                next_ticket |-> st.next_ticket + 1,
                cooldown |-> RecordReinforcement(st.cooldown, t),
                open_positions |-> Append(st.open_positions,
                    [ticket |-> st.next_ticket, pnl |-> 0, peak_pnl |-> 0,
                     timestamp |-> now, symbol |-> st.broker[t].symbol,
                     direction |-> Direction(st.broker[t].type),
                     last_update |-> "absent",
                     original_position_ticket |-> t]),
                log |-> sent]
          ELSE [st EXCEPT !.log = sent,
                          !.cooldown = RecordReinforcement(st.cooldown, t)]

\* execute_dynamic_reinforcement(position, plan, event) on the state st; ok
\* is the broker's answer to the order (retcode DONE or not). A position in
\* its cooling period is logged ("in cooling period") and no order is sent.
ExecuteDynamicReinforcement(st, t, ok) ==
  IF ~CanReinforce(st.cooldown, t)
  THEN [st EXCEPT !.log = Append(st.log, Event(st, "in_cooling_period", t))]
  ELSE LET sent == Append(st.log, Event(st, "reinforce", t))
       IN IF ok /\ st.next_ticket <= TicketLimit
          THEN [broker |-> [x \in DOMAIN st.broker \cup {st.next_ticket} |->
                              IF x = st.next_ticket
                          THEN Filled(st.broker[t].symbol, OrderType(st.broker[t].type), t)
                              ELSE st.broker[x]],
                next_ticket |-> st.next_ticket + 1,
                cooldown |-> RecordReinforcement(st.cooldown, t),
                open_positions |-> Append(st.open_positions,
                    [ticket |-> st.next_ticket, pnl |-> 0, peak_pnl |-> 0,
                     timestamp |-> now, symbol |-> st.broker[t].symbol,
                     direction |-> Direction(st.broker[t].type),
                     last_update |-> "absent",
                     original_position_ticket |-> t]),
                log |-> sent]
          ELSE [st EXCEPT !.log = sent]

\* The loop "for position, plan, event in positions_requiring_reinforcement".
RECURSIVE RunPlans(_, _)
RunPlans(st, plans) ==
  IF plans = <<>> THEN st
  ELSE RunPlans(ExecuteDynamicReinforcement(st, Head(plans).ticket, Head(plans).ok),
                Tail(plans))

\* Every order is rejected once the broker has handed out MaxTickets tickets:
\* a reinforcement attempt then leaves the ledger as it is.
TicketsUsedUp == next_ticket > last_ticket

\* The plans the reinforcement engine may queue for the positions of T.
PlanSeqs(T) ==
  UNION {[1..n -> [ticket : T, ok : BOOLEAN]] : n \in 0..MaxPlans}

Current(log) == [broker |-> broker, next_ticket |-> next_ticket,
                 cooldown |-> cooldown, open_positions |-> open_positions,
                 log |-> log]

\* continuous_position_monitoring, second step:
\* check_and_execute_dynamic_reinforcement.
MonitoringReinforce ==
  /\ pc = "reinforce"
  /\ \E plans \in PlanSeqs(IF open_positions = <<>> \/ TicketsUsedUp THEN {}
                            ELSE DOMAIN broker) :
       LET st == RunPlans(Current(<<>>), plans)
       IN /\ broker' = st.broker
          /\ next_ticket' = st.next_ticket
          /\ cooldown' = st.cooldown
          /\ open_positions' = st.open_positions
  /\ pc' = "evaluate"
  /\ UNCHANGED <<pureVars, runVars, component, now, eval_log, pmVars, closed_trades, realized_pnl,
                 portfolio_value, cycleVars>>

\* Mutation of CloseReason: the trailing stop does not test the trigger.
CloseReasonNoTrigger(pnl, peak_pnl, age) ==
  LET r1 == IF pnl > lt_take_profit THEN "take profit target"
            ELSE IF pnl < lt_stop_loss THEN "stop loss target"
            ELSE ""
      r2 == IF age > lt_max_age_hours THEN "time-based exit" ELSE r1
  IN IF pnl > peak_pnl THEN r2
     ELSE IF lt_trailing_den * pnl < lt_trailing_num * peak_pnl
          THEN "trailing stop"
     ELSE r2

\* Mutation of CloseReason: a position whose peak is above the take-profit
\* level, for which a close was therefore sent in an earlier tick, is passed
\* over once its profit has fallen back.
CloseReasonSkipsAttempted(pnl, peak_pnl, age) ==
  LET r1 == IF pnl > lt_take_profit THEN "take profit target"
            ELSE IF pnl < lt_stop_loss THEN "stop loss target"
            ELSE ""
      r2 == IF age > lt_max_age_hours THEN "time-based exit" ELSE r1
  IN IF peak_pnl > lt_take_profit /\ pnl < peak_pnl THEN ""
     ELSE IF pnl > peak_pnl THEN r2
     ELSE IF peak_pnl > lt_trailing_trigger
             /\ lt_trailing_den * pnl < lt_trailing_num * peak_pnl
          THEN "trailing stop"
     ELSE r2

\* check_and_close_positions, one position: the close reason ("" for None)
\* after the four rules, each of which may overwrite the reason of the one
\* before, and the position's peak_pnl afterwards.
CloseReason(pnl, peak_pnl, age) ==
  LET r1 == IF pnl > lt_take_profit THEN "take profit target"
            ELSE IF pnl < lt_stop_loss THEN "stop loss target"
            ELSE ""
      r2 == IF age > lt_max_age_hours THEN "time-based exit" ELSE r1
  IN IF pnl > peak_pnl THEN r2
     ELSE IF peak_pnl > lt_trailing_trigger
             /\ lt_trailing_den * pnl < lt_trailing_num * peak_pnl
          THEN "trailing stop"
     ELSE r2

PeakAfterCheck(pnl, peak_pnl) == IF pnl > peak_pnl THEN pnl ELSE peak_pnl

\* Mutation of MonitoringCheckAndClose: the closure rules run right after the
\* sync, in place of the reinforcement check.
MonitoringCheckAndCloseBeforeReinforce ==
  /\ pc = "reinforce"
  /\ eval_log' = [i \in DOMAIN open_positions |->
                   LET p == open_positions[i]
                       r == CloseReason(p.pnl, p.peak_pnl, now - p.timestamp)
                   IN [ticket |-> p.ticket, pnl |-> p.pnl,
                       peak_pnl |-> p.peak_pnl, age |-> now - p.timestamp,
                       calls |-> IF r = "" THEN <<>> ELSE <<r>>]]
  /\ open_positions' = [i \in DOMAIN open_positions |->
                          [open_positions[i] EXCEPT !.peak_pnl =
                             PeakAfterCheck(open_positions[i].pnl,
                                            open_positions[i].peak_pnl)]]
  /\ pc' = "close_trade"
  /\ UNCHANGED <<pureVars, runVars, envVars, pmVars, closed_trades, realized_pnl, portfolio_value,
                 cooldown, cycleVars>>

\* continuous_position_monitoring, third step: check_and_close_positions
\* marks the positions; the close_trade calls are answered in CloseTradeReturns.
MonitoringCheckAndClose ==
  /\ pc = "evaluate"
  /\ eval_log' = [i \in DOMAIN open_positions |->
                   LET p == open_positions[i]
                       r == CloseReason(p.pnl, p.peak_pnl, now - p.timestamp)
                   IN [ticket |-> p.ticket, pnl |-> p.pnl,
                       peak_pnl |-> p.peak_pnl, age |-> now - p.timestamp,
                       calls |-> IF r = "" THEN <<>> ELSE <<r>>]]
  /\ open_positions' = [i \in DOMAIN open_positions |->
                          [open_positions[i] EXCEPT !.peak_pnl =
                             PeakAfterCheck(open_positions[i].pnl,
                                            open_positions[i].peak_pnl)]]
  /\ pc' = "close_trade"
  /\ UNCHANGED <<pureVars, runVars, envVars, pmVars, closed_trades, realized_pnl, portfolio_value,
                 cooldown, cycleVars>>

\* The cooldown of a ticket expires.
CooldownExpires ==
  /\ pc = "idle"
  /\ \E t \in cooldown : cooldown' = cooldown \ {t}
  /\ UNCHANGED <<pureVars, runVars, envVars, pc, eval_log, pmVars, open_positions, closed_trades,
                 realized_pnl, portfolio_value, cycleVars>>

(* ------------------- run_main_trading_cycle --------------------------- *)

\* ufo_engine.execute_compensation_trade(position, plan, trade_executor):
\* an order for one more position; ok is the broker's answer.
ExecuteCompensationTrade(st, t, ok) ==
  LET sent == Append(st.log, Event(st, "compensate", t))
  IN IF ok /\ st.next_ticket <= TicketLimit
     THEN [st EXCEPT !.broker = [x \in DOMAIN st.broker \cup {st.next_ticket} |->
                                   IF x = st.next_ticket
                          THEN OpenedOutside(AnInstrument)
                                   ELSE st.broker[x]],
                     !.next_ticket = st.next_ticket + 1,
                     !.log = sent]
     ELSE [st EXCEPT !.log = sent]

\* trade_executor.close_trade(ticket) called by the cycle; ok is the answer.
CycleCloseTrade(st, op, t, ok) ==
  [st EXCEPT !.log = Append(st.log, Event(st, op, t)),
             !.broker = IF ok THEN Restrict(st.broker, DOMAIN st.broker \ {t})
                        ELSE st.broker]

\* list.sort(key=priority, reverse=True): stable, highest priority first.
RECURSIVE InsertByPriority(_, _)
InsertByPriority(s, x) ==
  IF s = <<>> THEN <<x>>
  ELSE IF Head(s).priority >= x.priority
       THEN <<Head(s)>> \o InsertByPriority(Tail(s), x)
       ELSE <<x>> \o s

\* Mutation of SortByPriority: the list stays in discovery order.
SortByPriorityOmitted(s) == s

RECURSIVE SortByPriority(_)
SortByPriority(s) ==
  IF s = <<>> THEN <<>>
  ELSE InsertByPriority(SortByPriority(SubSeq(s, 1, Len(s) - 1)), s[Len(s)])

\* reinforcement_opportunities[:max_reinforcements_per_cycle]
Top(s, n) == SubSeq(s, 1, IF Len(s) < n THEN Len(s) ELSE n)

\* The loop over the selected opportunities of analyze_positions_for_reinforcement.
RECURSIVE RunOpportunities(_, _)
RunOpportunities(st, opps) ==
  IF opps = <<>> THEN st
  ELSE LET o == Head(opps)
       IN RunOpportunities(
            IF o.type = "UFO-based"
            THEN ExecuteCompensationTrade(st, o.ticket, o.ok)
            ELSE ExecuteDynamicReinforcement(st, o.ticket, o.ok),
            Tail(opps))

\* The opportunity lists the analysis may build for the positions of T: the
\* positions in snapshot order, a position's UFO-based opportunity (at most
\* one) before its dynamic ones.
OpportunitySeqs(T) ==
  LET O == [ticket : T, type : {"UFO-based", "Dynamic"},
            priority : Priorities, ok : BOOLEAN]
      all == UNION {[1..n -> O] : n \in 0..MaxOpportunities}
  IN {s \in all : \A i, j \in DOMAIN s :
        i < j => /\ s[i].ticket <= s[j].ticket
                 /\ ~(s[i].ticket = s[j].ticket /\ s[j].type = "UFO-based")}

(* --------------------------- data collection -------------------------- *)

\* The symbols of the configuration and the timeframes a cycle requests.
Symbols == {"EURUSD", "GBPUSD"}
Timeframes == {"M5", "H1"}

\* What get_historical_data does for one timeframe: bars with a close column,
\* bars without one, an empty frame, None, or an exception.
FetchOutcomes == {"bars", "bars_no_close", "empty", "none", "raises"}

\* Mutation of Execute: an exception of one timeframe ends the whole call
\* without data.
ExecuteGivesUpOnError(connected, fetch) ==
  LET data == [tf \in Timeframes |->
                 IF fetch[tf] \in {"bars", "bars_no_close"} THEN fetch[tf]
                 ELSE "None"]
  IN IF ~connected \/ (\E tf \in Timeframes : fetch[tf] = "raises")
        \/ (\A tf \in Timeframes : data[tf] = "None")
     THEN [none |-> TRUE, data |-> [tf \in Timeframes |-> "None"]]
     ELSE [none |-> FALSE, data |-> data]

\* DataAnalystAgent.execute for an 'mt5' task: connected is the result of
\* connect(), fetch gives get_historical_data's outcome per timeframe.  The
\* result is None (none = TRUE) or the dict data, timeframe -> table or None.
Execute(connected, fetch) ==
  LET data == [tf \in Timeframes |->
                 IF fetch[tf] \in {"bars", "bars_no_close"} THEN fetch[tf]
                 ELSE "None"]
      success_count == Cardinality({tf \in Timeframes : data[tf] # "None"})
  IN IF ~connected
     THEN [none |-> TRUE, data |-> [tf \in Timeframes |-> "None"]]
     ELSE IF success_count > 0
          THEN [none |-> FALSE, data |-> data]
          ELSE [none |-> TRUE, data |-> [tf \in Timeframes |-> "None"]]

\* The value of a call's arguments or result while no call is studied.
NotCalled == [called |-> FALSE]

\* One call of execute on its own: the task and the collector's behaviour are
\* chosen, then execute returns.
ExecuteReturns ==
  /\ execute_task # NotCalled
  /\ execute_result = NotCalled
  /\ execute_result' =
       [called |-> TRUE,
        value |-> Execute(execute_task.connected, execute_task.fetch)]
  /\ UNCHANGED <<envVars, pc, eval_log, pmVars, ltVars, cycleVars, runVars,
                 execute_task, dispatchVars, priceVars, cacheVars, valueVars>>

\* Every result execute can give for one symbol.
ExecuteResults ==
  {Execute(c, f) : c \in BOOLEAN, f \in [Timeframes -> FetchOutcomes]}

\* all_price_data before the first symbol is fetched.
NoPriceData == [s \in {} |-> <<>>]

\* all_price_data of a cycle: the symbols whose result is truthy.
Collected(results) ==
  LET got == {s \in Symbols : ~results[s].none}
  IN IF got = {} THEN NoPriceData ELSE [s \in got |-> results[s].data]

\* Mutation of ValidDataCount: a table without a close column is counted.
ValidDataCountAnyTable(apd) ==
  Cardinality({c \in (DOMAIN apd) \X Timeframes : apd[c[1]][c[2]] # "None"})

\* valid_data_count: the (symbol, timeframe) tables that are not None, not
\* empty and have a close column.
ValidDataCount(apd) ==
  Cardinality({c \in (DOMAIN apd) \X Timeframes : apd[c[1]][c[2]] = "bars"})

\* The cycle's data collection: execute is called once per symbol.
CycleStart ==
  /\ component = "LiveTrader"
  /\ pc = "idle"
  /\ next_ticket <= last_ticket + 1
  /\ \E results \in [Symbols -> ExecuteResults] :
       all_price_data' = Collected(results)
  /\ pc' = "cycle_data"
  /\ UNCHANGED <<pureVars, runVars, envVars, eval_log, pmVars, ltVars, cycle_positions,
                 cycle_log, reinforcement_opportunities>>

\* The cycle from the check of all_price_data to its first look at the
\* positions: without price data or without a valid table the cycle returns;
\* otherwise the strength calculation, then open_positions_df = get_positions().
CycleValidate ==
  /\ pc = "cycle_data"
  /\ IF DOMAIN all_price_data = {} \/ ValidDataCount(all_price_data) = 0
     THEN /\ cycle_positions' = <<>>
          /\ cycle_log' =
               <<Event(Current(<<>>),
                       IF DOMAIN all_price_data = {} THEN "no_price_data"
                       ELSE "no_valid_data", 0)>>
          /\ pc' = "cycle_done"
     ELSE \E seen \in {{}, DOMAIN broker} :
            /\ cycle_positions' = SeqOfSet(seen)
            /\ cycle_log' = <<>>
            /\ pc' = IF seen = {} THEN "cycle_agents" ELSE "cycle_analyze"
  /\ all_price_data' = NoPriceData
  /\ UNCHANGED <<pureVars, runVars, envVars, eval_log, pmVars, ltVars, reinforcement_opportunities>>

\* analyze_positions_for_reinforcement on the state st: at most
\* max_reinforcements_per_cycle opportunities, by descending priority.
Analyze(st, opps) ==
  RunOpportunities(st, Top(SortByPriority(opps), max_reinforcements_per_cycle))

\* The cycle's call of analyze_positions_for_reinforcement, having found opps.
AnalysisStep(opps) ==
  /\ pc = "cycle_analyze"
  /\ LET st == Analyze(Current(cycle_log), opps)
     IN /\ broker' = st.broker
        /\ next_ticket' = st.next_ticket
        /\ cooldown' = st.cooldown
        /\ open_positions' = st.open_positions
        /\ cycle_log' = st.log
  /\ pc' = "cycle_guard"
  /\ UNCHANGED <<pureVars, runVars, component, now, eval_log, pmVars, closed_trades, realized_pnl,
                 portfolio_value, cycle_positions, all_price_data>>

\* The cycle's call of analyze_positions_for_reinforcement.
AnalyzePositionsForReinforcement ==
  /\ pc = "cycle_analyze"
  /\ \E opps \in OpportunitySeqs(DOMAIN broker) :
       /\ AnalysisStep(opps)
       /\ UNCHANGED reinforcement_opportunities

\* The same call with the list of opportunities it built kept for inspection.
AnalysisObserved ==
  /\ pc = "cycle_analyze"
  /\ \E opps \in OpportunitySeqs(DOMAIN broker) :
       /\ AnalysisStep(opps)
       /\ reinforcement_opportunities' = opps

\* A decision cycle seen from the ledger: of all it does, only
\* analyze_positions_for_reinforcement writes LiveTrader's own state; its
\* closes and new trades reach the ledger through the broker.
DecisionCycleAnalysis ==
  /\ component = "LiveTrader"
  /\ pc = "idle"
  /\ DOMAIN broker # {}
  /\ ~TicketsUsedUp
  /\ \E opps \in OpportunitySeqs(DOMAIN broker) :
       LET st == Analyze(Current(<<>>), opps)
       IN /\ broker' = st.broker
          /\ next_ticket' = st.next_ticket
          /\ cooldown' = st.cooldown
          /\ open_positions' = st.open_positions
  /\ UNCHANGED <<pureVars, runVars, component, now, pc, eval_log, pmVars, closed_trades,
                 realized_pnl, portfolio_value, cycleVars>>

\* Mutation of CloseAll: the first row of open_positions_df is skipped.
RECURSIVE CloseAllButFirst(_, _, _, _)
CloseAllButFirst(st, op, rows, closed) ==
  IF rows = <<>> \/ Tail(rows) = <<>> THEN st
  ELSE CloseAllButFirst(
         CycleCloseTrade(st, op, rows[2], rows[2] \in closed),
         op, Tail(rows), closed)

\* close_trade for every row of open_positions_df, in order; closed are the
\* tickets whose close succeeds.
RECURSIVE CloseAll(_, _, _, _)
CloseAll(st, op, rows, closed) ==
  IF rows = <<>> THEN st
  ELSE CloseAll(CycleCloseTrade(st, op, Head(rows), Head(rows) \in closed),
                op, Tail(rows), closed)

\* The portfolio equity stop and the session-end check of the cycle.
CycleGuard ==
  /\ pc = "cycle_guard"
  /\ \E verdict \in {"equity_stop", "session_end", "continue"} :
       IF verdict = "continue"
       THEN /\ pc' = "cycle_compensate"
            /\ UNCHANGED <<broker, cycle_log>>
       ELSE \E closed \in SUBSET (Range(cycle_positions) \cap DOMAIN broker) :
              LET st0 == Current(cycle_log)
                  st1 == [st0 EXCEPT !.log = Append(st0.log, Event(st0, verdict, 0))]
                  st == CloseAll(st1, "close_" \o verdict, cycle_positions, closed)
              IN /\ broker' = st.broker
                 /\ cycle_log' = st.log
                 /\ pc' = "cycle_done"
  /\ UNCHANGED <<pureVars, runVars, component, now, next_ticket, eval_log, pmVars, ltVars,
                 cycle_positions, reinforcement_opportunities, all_price_data>>

\* The compensation loop over open_positions_df: should_reinforce_position
\* decides per position between a compensation trade, a close and nothing.
RECURSIVE RunCompensation(_, _, _)
RunCompensation(st, rows, decision) ==
  IF rows = <<>> THEN st
  ELSE LET t == Head(rows)
           d == decision[t]
       IN RunCompensation(
            IF d.act = "reinforce" THEN ExecuteCompensationTrade(st, t, d.ok)
            ELSE IF d.act = "close" THEN CycleCloseTrade(st, "close_ufo", t,
                                                         d.ok /\ t \in DOMAIN st.broker)
            ELSE st,
            Tail(rows), decision)

CycleCompensate ==
  /\ pc = "cycle_compensate"
  /\ \E decision \in [Range(cycle_positions) ->
                        [act : {"reinforce", "close", "hold"}, ok : BOOLEAN]] :
       LET st == RunCompensation(Current(cycle_log), cycle_positions, decision)
       IN /\ broker' = st.broker
          /\ next_ticket' = st.next_ticket
          /\ cycle_log' = st.log
  /\ pc' = "cycle_agents"
  /\ UNCHANGED <<pureVars, runVars, component, now, eval_log, pmVars, ltVars, cycle_positions,
                 reinforcement_opportunities, all_price_data>>

\* The new trades of the plan, each sent with execute_ufo_trade.
RECURSIVE RunTrades(_, _)
RunTrades(st, trades) ==
  IF trades = <<>> THEN st
  ELSE LET sent == Append(st.log, Event(st, "open", 0))
       IN RunTrades(
            IF Head(trades) /\ st.next_ticket <= TicketLimit
            THEN [st EXCEPT !.broker = [x \in DOMAIN st.broker \cup {st.next_ticket} |->
                                          IF x = st.next_ticket
                          THEN OpenedOutside(AnInstrument)
                                          ELSE st.broker[x]],
                            !.next_ticket = st.next_ticket + 1,
                            !.log = sent]
            ELSE [st EXCEPT !.log = sent],
            Tail(trades))

\* "APPROVE" in authorization, or a rejection that names risk and exceed.
ShouldExecute(authorization) ==
  authorization \in {"APPROVE", "REJECT: risk exceeds limit"}

\* The agentic workflow: researcher, trader, risk manager, fund manager, then
\* the dispatch of the approved plan.
CycleAgents ==
  /\ pc = "cycle_agents"
  /\ \E risk \in {"OK", "STOP_LOSS_BREACHED"},
        authorization \in {"APPROVE", "REJECT", "REJECT: risk exceeds limit"},
        should_trade \in BOOLEAN,
        trades \in UNION {[1..n -> BOOLEAN] : n \in 0..MaxTrades} :
       LET st0 == Current(cycle_log)
           assessed == [st0 EXCEPT !.log =
                          st0.log \o <<Event(st0, "agents", 0),
                                       Event(st0, "risk_" \o risk, 0)>>]
           called == IF risk = "STOP_LOSS_BREACHED" THEN assessed
                     ELSE [assessed EXCEPT !.log =
                             Append(assessed.log,
                                    Event(st0, "authorization_" \o authorization, 0))]
           st == IF risk # "STOP_LOSS_BREACHED" /\ ShouldExecute(authorization)
                    /\ should_trade
                 THEN RunTrades(called, trades)
                 ELSE called
       IN /\ broker' = st.broker
          /\ next_ticket' = st.next_ticket
          /\ cycle_log' = st.log
  /\ pc' = "cycle_done"
  /\ UNCHANGED <<pureVars, runVars, component, now, eval_log, pmVars, ltVars, cycle_positions,
                 reinforcement_opportunities, all_price_data>>

\* run_main_trading_cycle returns to run().
CycleReturns ==
  /\ pc = "cycle_done"
  /\ pc' = "idle"
  /\ cycle_log' = <<>>
  /\ cycle_positions' = <<>>
  /\ UNCHANGED <<pureVars, runVars, envVars, eval_log, pmVars, ltVars, reinforcement_opportunities, all_price_data>>

(* ------------------------- new-trade dispatch ------------------------- *)

\* Entries of one action list in a payload.
MaxActions == 2

\* One element of the action list: a mapping, of which the dispatch reads the
\* symbol (currency_pair, else symbol), the direction and the volume (volume,
\* else lot_size), or something that is not a mapping.  "missing" is an absent
\* key, "not_text" a value without string methods, "abc" a text that is not a
\* number.
ActionEntries ==
  [kind : {"mapping"},
   symbol : {"EURUSD", "UNKNOWN", "missing", "not_text"},
   direction : {"BUY", "sell", "HOLD", "missing"},
   volume : {"0.5", "abc", "missing"}]
  \cup {[kind |-> "scalar"]}

ActionLists == UNION {[1..n -> ActionEntries] : n \in 0..MaxActions}

\* trade_decision_str as the dispatch sees it: no {...} in the text, a {...}
\* json.loads rejects, or an object in which the first of the keys actions,
\* trade_plan, trades (or none of them) holds a list or a value that is not
\* a list.
Payloads ==
  {[form |-> "no_json"], [form |-> "bad_json"]}
  \cup [form : {"object"}, key : {"actions", "trade_plan", "trades", "other"},
        list : {TRUE}, value : ActionLists]
  \cup [form : {"object"}, key : {"actions", "trade_plan", "trades"},
        list : {FALSE}]

\* str.upper() on the directions of the payloads.
Upper(direction) == IF direction = "sell" THEN "SELL" ELSE direction

\* float() on the volumes of the payloads, in tenths of a lot; 0 stands for
\* the ValueError.
Float(volume) == IF volume = "0.5" THEN 5 ELSE 0

\* The default volume 0.1, in tenths of a lot.
DefaultVolume == 1

\* The body of the loop over actions_list for entry number i: the order handed
\* to execute_ufo_trade, or nothing when the entry raised or its direction is
\* neither BUY nor SELL.
TradeOrder(e, i) ==
  IF e.kind # "mapping" THEN <<>>
  ELSE LET symbol == IF e.symbol = "missing" THEN "" ELSE e.symbol
           direction == IF e.direction = "missing" THEN ""
                        ELSE Upper(e.direction)
           volume == IF e.volume = "missing" THEN DefaultVolume
                     ELSE Float(e.volume)
       IN IF e.symbol = "not_text" \/ volume = 0 THEN <<>>
          ELSE IF direction \notin {"BUY", "SELL"} THEN <<>>
          ELSE <<[entry |-> i, symbol |-> symbol \o "-ECN",
                  direction |-> direction, volume |-> volume]>>

\* The actions_list built from the trades key: every trade must be a mapping
\* with currency_pair and direction, or building the list raises; the volume
\* of each built action is 0.1.
FromTrades(value) ==
  IF \E i \in DOMAIN value :
       \/ value[i].kind # "mapping"
       \/ value[i].symbol = "missing"
       \/ value[i].direction \in {"missing"}
  THEN [raised |-> TRUE, list |-> <<>>]
  ELSE [raised |-> FALSE,
        list |-> [i \in DOMAIN value |->
                    [kind |-> "mapping", symbol |-> value[i].symbol,
                     direction |-> Upper(value[i].direction),
                     volume |-> "missing"]]]

RECURSIVE OrdersFrom(_, _)
OrdersFrom(list, i) ==
  IF i > Len(list) THEN <<>>
  ELSE TradeOrder(list[i], i) \o OrdersFrom(list, i + 1)

\* Mutation of Dispatch: a value that cannot be iterated, or a trades list
\* that cannot be converted, raises out of the cycle.
DispatchUnguarded(p) ==
  IF p.form # "object" THEN [orders |-> <<>>, raised |-> FALSE]
  ELSE IF p.key = "other" THEN [orders |-> <<>>, raised |-> FALSE]
  ELSE IF ~p.list THEN [orders |-> <<>>, raised |-> TRUE]
  ELSE IF p.key = "trades"
       THEN [orders |-> OrdersFrom(FromTrades(p.value).list, 1),
             raised |-> FromTrades(p.value).raised]
       ELSE [orders |-> OrdersFrom(p.value, 1), raised |-> FALSE]

\* The dispatch of the approved plan: the orders handed to execute_ufo_trade,
\* in order, and whether an exception leaves the cycle.  Every exception of
\* the parsing and of the loop is caught inside the cycle.
Dispatch(p) ==
  IF p.form # "object" THEN [orders |-> <<>>, raised |-> FALSE]
  ELSE IF p.key = "other" THEN [orders |-> <<>>, raised |-> FALSE]
  ELSE IF ~p.list THEN [orders |-> <<>>, raised |-> FALSE]
  ELSE IF p.key = "trades"
       THEN [orders |-> OrdersFrom(FromTrades(p.value).list, 1),
             raised |-> FALSE]
       ELSE [orders |-> OrdersFrom(p.value, 1), raised |-> FALSE]

\* The dispatch on its own: the payload is chosen, then dispatched.
DispatchReturns ==
  /\ trade_decision # NotCalled
  /\ dispatch_result = NotCalled
  /\ dispatch_result' = [called |-> TRUE, value |-> Dispatch(trade_decision.payload)]
  /\ UNCHANGED <<envVars, pc, eval_log, pmVars, ltVars, cycleVars, runVars,
                 executeVars, trade_decision, priceVars, cacheVars, valueVars>>

(* ---------------------------- entry prices ---------------------------- *)

\* Prices are in twentieths of the smallest spread, so that every fraction of
\* a spread the functions use is a whole number.

\* The spreads of the quotes: none, one unit of 20, two.
SpreadValues == {0, 20, 40}
\* The bid of the quotes.
BidValues == {1000}
\* market_event['volatility_multiplier'], in tenths: 0, 1.0, 2.5, 3.0.
MultiplierTenths == {0, 10, 25, 30}

\* What get_real_time_market_data_for_positions holds for the symbol: nothing,
\* or a quote whose spread is ask - bid.
Quotes ==
  {[available |-> FALSE]}
  \cup {[available |-> TRUE, bid |-> b, ask |-> b + s, spread |-> s] :
          b \in BidValues, s \in SpreadValues}

\* The return value None of the price functions.
NoPrice == [none |-> TRUE]

Price(p) == [none |-> FALSE, price |-> p]

\* spread * (hundredths / 100), exact for the spreads above.
Fraction(spread, hundredths) == (spread * hundredths) \div 100

\* calculate_ufo_optimized_entry_price: reinforcement_type and event_type are
\* the plan's and the event's type, multiplier the event's
\* volatility_multiplier in tenths.
UfoOptimizedEntryPrice(q, direction, reinforcement_type, event_type, multiplier) ==
  IF ~q.available THEN NoPrice
  ELSE
    LET spread == q.spread
        base_price == IF direction = "BUY" THEN q.ask ELSE q.bid
        sign == IF direction = "BUY" THEN 1 ELSE -1
        price_adjustment ==
          IF reinforcement_type = "momentum" THEN sign * Fraction(spread, 50)
          ELSE IF reinforcement_type = "compensation"
               THEN -sign * Fraction(spread, 25)
          ELSE IF event_type = "rapid_loss" THEN 0
          ELSE IF event_type = "volatility"
               THEN sign * Fraction(spread, multiplier * 10)
          ELSE 0
        optimal_price == base_price + price_adjustment
    IN IF direction = "BUY"
       THEN Price(Min(optimal_price, q.ask + spread * 2))
       ELSE Price(Max(optimal_price, q.bid - spread * 2))

\* calculate_ufo_entry_price: use is `ufo_data and use_strength`, strength_diff
\* the base currency's strength minus the quote currency's, oscillation and
\* uncertainty the two extra signals of ufo_data.  The last log line divides
\* by the spread: with a spread of 0 the ZeroDivisionError is caught and None
\* is returned.
UfoEntryPrice(q, direction, use, strength_diff, oscillation, uncertainty) ==
  IF ~q.available THEN NoPrice
  ELSE
    LET spread == q.spread
        base_price == IF direction = "BUY" THEN q.ask ELSE q.bid
        sign == IF direction = "BUY" THEN 1 ELSE -1
        by_strength ==
          IF ~use \/ (strength_diff <= 1 /\ strength_diff >= -1) THEN 0
          ELSE IF direction = "BUY"
               THEN IF strength_diff > 0 THEN -Fraction(spread, 20)
                    ELSE Fraction(spread, 10)
               ELSE IF strength_diff < 0 THEN Fraction(spread, 20)
                    ELSE -Fraction(spread, 10)
        by_oscillation ==
          IF use /\ oscillation THEN sign * Fraction(spread, 5) ELSE 0
        by_uncertainty ==
          IF use /\ uncertainty THEN sign * Fraction(spread, 10) ELSE 0
        price_adjustment == by_strength + by_oscillation + by_uncertainty
        optimal_price == base_price + price_adjustment
        clamped ==
          IF direction = "BUY"
          THEN Max(Min(optimal_price, q.ask + Fraction(spread, 150)),
                   q.bid - Fraction(spread, 50))
          ELSE Min(Max(optimal_price, q.bid - Fraction(spread, 150)),
                   q.ask + Fraction(spread, 50))
    IN IF spread = 0 THEN NoPrice ELSE Price(clamped)

\* The calls of the two functions that are studied.
PriceCalls ==
  [called : {TRUE}, function : {"calculate_ufo_entry_price"}, quote : Quotes,
   direction : {"BUY", "SELL"}, use : BOOLEAN, strength_diff : {-2, 0, 2},
   oscillation : BOOLEAN, uncertainty : BOOLEAN]
  \cup
  [called : {TRUE}, function : {"calculate_ufo_optimized_entry_price"},
   quote : Quotes, direction : {"BUY", "SELL"},
   reinforcement_type : {"momentum", "compensation", "standard"},
   event_type : {"rapid_loss", "volatility", "other"},
   multiplier : MultiplierTenths]

\* Mutation of ReinforcementOrder: without an entry price no order is sent,
\* with one the order is a limit order.
ReinforcementOrderAtPrice(optimal_entry_price) ==
  [sent |-> ~optimal_entry_price.none, limit_price |-> optimal_entry_price]

\* The order execute_dynamic_reinforcement hands to execute_ufo_trade after it
\* has asked for the optimal entry price: symbol, type, volume and comment,
\* never a price, whatever the price function returned.
ReinforcementOrder(optimal_entry_price) ==
  [sent |-> TRUE, limit_price |-> NoPrice]

\* The studied call returns.
PriceReturns ==
  /\ price_call # NotCalled
  /\ price_result = NotCalled
  /\ LET c == price_call
     IN price_result' =
          [called |-> TRUE,
           value |-> IF c.function = "calculate_ufo_entry_price"
                     THEN UfoEntryPrice(c.quote, c.direction, c.use,
                                        c.strength_diff, c.oscillation,
                                        c.uncertainty)
                     ELSE UfoOptimizedEntryPrice(c.quote, c.direction,
                                                 c.reinforcement_type,
                                                 c.event_type, c.multiplier)]
  /\ UNCHANGED <<envVars, pc, eval_log, pmVars, ltVars, cycleVars, runVars,
                 executeVars, dispatchVars, price_call, reinforcement_order,
                 cacheVars, valueVars>>

\* execute_dynamic_reinforcement, which called the optimized function, sends
\* its order.
ReinforcementOrderSent ==
  /\ price_result # NotCalled
  /\ price_call.function = "calculate_ufo_optimized_entry_price"
  /\ reinforcement_order = NotCalled
  /\ reinforcement_order' =
       [called |-> TRUE, value |-> ReinforcementOrder(price_result.value)]
  /\ UNCHANGED <<envVars, pc, eval_log, pmVars, ltVars, cycleVars, runVars,
                 executeVars, dispatchVars, price_call, price_result,
                 cacheVars, valueVars>>

(* ------------------------- market data cache -------------------------- *)

\* Times of the cache are in half seconds.

\* Calls of the market data function in one behaviour.
MaxCacheCalls == 4
\* cache_age < 1.0: one second.
CacheFresh == 2
\* pd.Timedelta(seconds=60).
CacheKeep == 120

\* The time between two calls: half a second, a second, a minute, a little
\* more than a minute.
CacheSteps == {1, 2, 120, 121}

\* cache_key: the current time floored to the second.
CacheKey(t) == t \div 2

\* The symbols quotes are asked for; 'JPY' in symbol holds for the second.
QuoteSymbols == {"EURUSD", "USDJPY"}
IsJpy(symbol) == symbol = "USDJPY"

\* Prices are in units of 0.0001. estimated_spread: 0.01 for a JPY pair,
\* 0.0001 for another pair.
JpyPip == 100
Pip == 1
EstimatedSpread(symbol) == IF IsJpy(symbol) THEN JpyPip ELSE Pip

\* What the terminal answers for one symbol: symbol_info_tick gives a tick
\* (present, with its bid and ask) or None, copy_rates_from_pos gives a bar
\* (present, with its close) or nothing, or the request raises.
NoTick == [present |-> FALSE]
NoRates == [present |-> FALSE]
GoodTick(symbol) ==
  IF IsJpy(symbol) THEN [present |-> TRUE, bid |-> 1500000, ask |-> 1500200]
  ELSE [present |-> TRUE, bid |-> 11000, ask |-> 11002]
ZeroTick == [present |-> TRUE, bid |-> 0, ask |-> 0]
LastBar(symbol) ==
  [present |-> TRUE, close |-> IF IsJpy(symbol) THEN 1499900 ELSE 10990]
SymbolAnswers(symbol) ==
  {[tick |-> GoodTick(symbol), rates |-> NoRates, raises |-> FALSE],
   [tick |-> NoTick, rates |-> LastBar(symbol), raises |-> FALSE],
   [tick |-> ZeroTick, rates |-> LastBar(symbol), raises |-> FALSE],
   [tick |-> NoTick, rates |-> NoRates, raises |-> FALSE],
   [tick |-> NoTick, rates |-> NoRates, raises |-> TRUE]}

\* The terminal: one answer for every symbol.
Terminals ==
  {t \in [QuoteSymbols -> UNION {SymbolAnswers(s) : s \in QuoteSymbols}] :
     \A s \in QuoteSymbols : t[s] \in SymbolAnswers(s)}

\* mt5_collector.connect(): True, False, or an exception.
Connections == {"ok", "fails", "raises"}

\* tick is not None and tick.bid > 0.
HasTick(answer) == answer.tick.present /\ answer.tick.bid > 0
\* rates is not None and len(rates) > 0.
HasRates(answer) == answer.rates.present

\* The entry written for a symbol from its tick, and from its last bar
\* (the fields last and volume are left out).
TickQuote(tick, t) ==
  [close |-> tick.bid, ask |-> tick.ask, bid |-> tick.bid,
   spread |-> tick.ask - tick.bid, timestamp |-> t]
BarQuote(symbol, rates, t) ==
  [close |-> rates.close, ask |-> rates.close + EstimatedSpread(symbol),
   bid |-> rates.close, spread |-> EstimatedSpread(symbol), timestamp |-> t]

\* The loop over symbols_to_fetch: current_market_data when it ends.
FetchMarketData(symbols_to_fetch, terminal, t, known) ==
  LET got == {s \in symbols_to_fetch :
                IF terminal[s].raises THEN s \in DOMAIN known
                ELSE HasTick(terminal[s]) \/ HasRates(terminal[s])}
  IN [s \in got |->
        IF terminal[s].raises THEN known[s]
        ELSE IF HasTick(terminal[s]) THEN TickQuote(terminal[s].tick, t)
        ELSE BarQuote(s, terminal[s].rates, t)]

\* f without the keys of gone.
Without(f, gone) == [k \in (DOMAIN f) \ gone |-> f[k]]

\* f with key k set to v.
With(f, k, v) == [x \in (DOMAIN f) \cup {k} |-> IF x = k THEN v ELSE f[x]]

\* dict.update: f with the entries of g.
Updated(f, g) ==
  [x \in (DOMAIN f) \cup (DOMAIN g) |-> IF x \in DOMAIN g THEN g[x] ELSE f[x]]

\* get_real_time_market_data_for_positions at time t for positions with the
\* symbols symbols_to_fetch (none: open_positions is None or empty): the new
\* values of _market_data_cache, _cache_timestamps and _last_known_prices,
\* the mapping returned and how the call went.
GetRealTimeMarketData(t, symbols_to_fetch, use_cache, connects, terminal) ==
  LET key == CacheKey(t)
      Kept(data, outcome) ==
        [cache |-> market_data_cache, stamps |-> cache_timestamps,
         known |-> last_known_prices, data |-> data, outcome |-> outcome]
  IN IF symbols_to_fetch = {} THEN Kept(<<>>, "no_positions")
     ELSE IF /\ use_cache
             /\ key \in DOMAIN market_data_cache
             /\ t - cache_timestamps[key] < CacheFresh
          THEN Kept(market_data_cache[key], "cache_hit")
     ELSE IF connects = "fails" THEN Kept(<<>>, "connect_fails")
     ELSE IF connects = "raises" THEN Kept(<<>>, "raises")
     ELSE LET current_market_data ==
                FetchMarketData(symbols_to_fetch, terminal, t, last_known_prices)
              known == Updated(last_known_prices, current_market_data)
              stored == With(cache_timestamps, key, t)
              keys_to_remove == {k \in DOMAIN stored : stored[k] < t - CacheKeep}
          IN IF use_cache /\ DOMAIN current_market_data # {}
             THEN [cache |-> Without(With(market_data_cache, key,
                                          current_market_data), keys_to_remove),
                   stamps |-> Without(stored, keys_to_remove),
                   known |-> known, data |-> current_market_data,
                   outcome |-> "data"]
             ELSE [cache |-> market_data_cache, stamps |-> cache_timestamps,
                   known |-> known, data |-> current_market_data,
                   outcome |-> IF DOMAIN current_market_data # {}
                               THEN "data" ELSE "no_data"]

\* The symbols of symbols_to_fetch the terminal has a tick or a bar for.
Quotable(symbols_to_fetch, terminal) ==
  {s \in symbols_to_fetch :
     /\ ~terminal[s].raises
     /\ HasTick(terminal[s]) \/ HasRates(terminal[s])}

\* One call of get_real_time_market_data_for_positions returns; the positions
\* passed have one of symbol_sets as their symbols, the terminal is in one
\* of the states terminals.
MarketDataCallOf(symbol_sets, terminals, max_calls) ==
  /\ cache_call = NotCalled
  /\ cache_calls < max_calls
  /\ cache_calls' = cache_calls + 1
  /\ \E symbols_to_fetch \in symbol_sets, use_cache \in BOOLEAN,
        connects \in Connections, terminal \in terminals :
       LET r == GetRealTimeMarketData(cache_now, symbols_to_fetch, use_cache,
                                      connects, terminal)
       IN /\ market_data_cache' = r.cache
          /\ cache_timestamps' = r.stamps
          /\ last_known_prices' = r.known
          /\ cache_call' = [called |-> TRUE, use_cache |-> use_cache,
                            outcome |-> r.outcome,
                            requested |-> symbols_to_fetch,
                            connects |-> connects,
                            quotable |-> Quotable(symbols_to_fetch, terminal),
                            returned |-> r.data]
  /\ UNCHANGED <<envVars, pc, eval_log, pmVars, ltVars, cycleVars, runVars,
                 executeVars, dispatchVars, priceVars, cache_now, valueVars>>

\* The calls followed for the state of the cache: positions in one symbol or
\* none, a terminal that quotes every symbol or no symbol.
CacheSymbolSets == {{}, {"EURUSD"}}
CacheTerminals ==
  {[s \in QuoteSymbols |->
      [tick |-> GoodTick(s), rates |-> NoRates, raises |-> FALSE]],
   [s \in QuoteSymbols |->
      [tick |-> NoTick, rates |-> NoRates, raises |-> FALSE]]}

MarketDataCall == MarketDataCallOf(CacheSymbolSets, CacheTerminals, MaxCacheCalls)

\* Time passes until the next call.
CacheTimePasses ==
  /\ cache_call # NotCalled
  /\ \E d \in CacheSteps : cache_now' = cache_now + d
  /\ cache_call' = NotCalled
  /\ UNCHANGED <<envVars, pc, eval_log, pmVars, ltVars, cycleVars, runVars,
                 executeVars, dispatchVars, priceVars, market_data_cache,
                 cache_timestamps, last_known_prices, cache_calls, valueVars>>

(* ----------------------------- broker --------------------------------- *)

\* A position appears at the broker (opened outside the modelled handlers).
BrokerOpens ==
  /\ pc = "idle"
  /\ next_ticket <= last_ticket
  /\ \E ins \in instruments :
       broker' = [t \in DOMAIN broker \cup {next_ticket} |->
                    IF t = next_ticket THEN OpenedOutside(ins) ELSE broker[t]]
  /\ next_ticket' = next_ticket + 1
  /\ UNCHANGED <<pureVars, runVars, component, now, pc, eval_log, pmVars, ltVars, cycleVars>>

\* A position disappears at the broker (closed outside the modelled handlers).
BrokerCloses ==
  /\ pc = "idle"
  /\ \E t \in DOMAIN broker : broker' = Restrict(broker, DOMAIN broker \ {t})
  /\ UNCHANGED <<pureVars, runVars, component, now, next_ticket, pc, eval_log, pmVars, ltVars, cycleVars>>

\* Time passes.
Advance ==
  /\ pc = "idle"
  /\ \E later \in {c \in ClockValues : c > now} : now' = later
  /\ UNCHANGED <<pureVars, runVars, component, broker, next_ticket, pc, eval_log, pmVars, ltVars, cycleVars>>

(* ---------------------------- the run loop ---------------------------- *)

\* Times of the run loop are in tenths of a second.

\* Loop iterations of one behaviour.
MaxIterations == 6

\* max(1, time_to_next_cycle): one second.
SleepFloor == 10
\* min(60, ...): the longest sleep without monitoring, 60 seconds.
IdleSleepCap == 600
\* time.sleep(60) after an exception.
BackoffSeconds == 600
\* last_cycle_time = time.time() - cycle_period_seconds - 1: one second.
StartupMargin == 10
\* cycle_period_minutes defaults to 40, position_update_frequency_minutes to 5.
DefaultCyclePeriod == 24000
DefaultUpdateFrequency == 3000

\* Configured cycle periods: 1 minute and 7 minutes.
CyclePeriods == {600, 4200}
\* Configured update frequencies: 0.01 minute and 5 minutes (parse_config_value
\* reads a value with a decimal point as a float).
UpdateFrequencies == {6, 3000}


\* The configuration LiveTrader.__init__ has read.
Configured(period, freq, enabled) ==
  /\ cycle_period_seconds = period
  /\ position_update_frequency_seconds = freq
  /\ continuous_monitoring_enabled = enabled
  /\ instruments = {[symbol |-> "EURUSD", type |-> 0]}
  /\ last_ticket = MaxTickets

\* LiveTrader.__init__: last_cycle_time = 0, cycle_count = 0; run not called.
RunNotStarted ==
  /\ run_pc = "not_started"
  /\ wall_time = 0
  /\ last_cycle_time = 0
  /\ cycle_count = 0
  /\ sleep_duration = 0
  /\ run_log = <<>>
  /\ interrupted = FALSE
  /\ summary_count = 0
  /\ iterations = 0

\* What run leaves alone: everything but its own fields and open_positions,
\* of which run reads only whether it is empty.
besideRun == <<envVars, pc, eval_log, pmVars, closed_trades, realized_pnl,
               portfolio_value, cooldown, cycleVars, configVars, pureVars>>

\* self.open_positions as a handler called by run may leave it.
LedgerStates ==
  {<<>>, <<[ticket |-> 1, pnl |-> 0, peak_pnl |-> 0, timestamp |-> 0,
            symbol |-> "EURUSD", direction |-> "BUY",
            last_update |-> "written",
            original_position_ticket |-> 0]>>}

\* How a call made inside the loop's try ends.
Outcomes == {"returns", "raises", "interrupted"}

\* Mutation of AfterCall: an exception ends the loop like an interrupt.
AfterCallExitsOnError(outcome, normal) ==
  IF outcome = "returns" THEN normal ELSE "final_summary"

\* Where run continues after a call: except Exception leads to the backoff,
\* except KeyboardInterrupt breaks out of the loop into the finally block.
AfterCall(outcome, normal) ==
  CASE outcome = "raises" -> "backoff"
    [] outcome = "interrupted" -> "final_summary"
    [] OTHER -> normal

\* Mutation of OnKeyboardInterrupt: an interrupt of the backoff sleep, which
\* is outside the inner try, leaves run without passing the finally block.
OnKeyboardInterruptBackoffEscapes(at) ==
  IF at = "backoff" THEN "exited" ELSE "final_summary"

\* Where a KeyboardInterrupt raised at position at leads: caught by the inner
\* handler inside the try, propagating from the backoff sleep; both reach the
\* finally block.
OnKeyboardInterrupt(at) == "final_summary"

\* The monitoring condition of the loop at time t.
MonitoringDue(t) ==
  /\ continuous_monitoring_enabled
  /\ open_positions # <<>>
  /\ (t - last_cycle_time) \div position_update_frequency_seconds > 0

\* Mutation of CycleDue: the cycle is taken to be due in every iteration.
CycleDueEveryIteration(t) == TRUE

\* The cycle condition of the loop at time t.
CycleDue(t) == t - last_cycle_time >= cycle_period_seconds

\* The sleep of an iteration that read the clock at t, with the cycle last
\* run at last and the ledger as the handlers left it.
SleepDuration(t, last, positions) ==
  LET time_to_next_cycle == (last + cycle_period_seconds) - t
  IN IF continuous_monitoring_enabled /\ positions # <<>>
     THEN Min(position_update_frequency_seconds,
              Max(SleepFloor, time_to_next_cycle))
     ELSE Min(IdleSleepCap, Max(SleepFloor, time_to_next_cycle))

Call(name) == [call |-> name, at |-> wall_time]

\* run up to the loop: the first cycle is made due at once.
RunStarts ==
  /\ run_pc = "not_started"
  /\ component = "LiveTrader"
  /\ last_cycle_time' = wall_time - cycle_period_seconds - StartupMargin
  /\ run_pc' = "loop_top"
  /\ UNCHANGED <<besideRun, open_positions, wall_time, cycle_count,
                 sleep_duration, run_log, interrupted, summary_count,
                 iterations>>

\* The first half of an iteration: now = time.time() and the monitoring tick.
MonitoringTick ==
  /\ run_pc = "loop_top"
  /\ IF MonitoringDue(wall_time)
     THEN \E outcome \in Outcomes, positions \in LedgerStates :
            /\ run_log' = Append(run_log, Call("monitoring"))
            /\ open_positions' = positions
            /\ run_pc' = AfterCall(outcome, "cycle_check")
            /\ interrupted' = (outcome = "interrupted")
     ELSE /\ run_pc' = "cycle_check"
          /\ UNCHANGED <<run_log, open_positions, interrupted>>
  /\ UNCHANGED <<besideRun, wall_time, last_cycle_time, cycle_count,
                 sleep_duration, summary_count, iterations>>

\* The second half: the cycle when it is due, then the sleep is computed.
CycleCheck ==
  /\ run_pc = "cycle_check"
  /\ IF CycleDue(wall_time)
     THEN /\ cycle_count' = cycle_count + 1
          /\ \E active \in BOOLEAN :
               IF active
               THEN \E outcome \in Outcomes, positions \in LedgerStates :
                      /\ run_log' = Append(run_log, Call("cycle"))
                      /\ open_positions' = positions
                      /\ run_pc' = AfterCall(outcome, "sleeping")
                      /\ interrupted' = (outcome = "interrupted")
                      /\ IF outcome = "returns"
                         THEN /\ last_cycle_time' = wall_time
                              /\ sleep_duration' =
                                   SleepDuration(wall_time, wall_time, positions)
                         ELSE UNCHANGED <<last_cycle_time, sleep_duration>>
               ELSE /\ run_log' = Append(run_log, Call("outside_session"))
                    /\ last_cycle_time' = wall_time
                    /\ sleep_duration' =
                         SleepDuration(wall_time, wall_time, open_positions)
                    /\ run_pc' = "sleeping"
                    /\ UNCHANGED <<open_positions, interrupted>>
     ELSE /\ sleep_duration' =
               SleepDuration(wall_time, last_cycle_time, open_positions)
          /\ run_pc' = "sleeping"
          /\ UNCHANGED <<cycle_count, run_log, open_positions, interrupted,
                         last_cycle_time>>
  /\ UNCHANGED <<besideRun, wall_time, summary_count, iterations>>

\* time.sleep(sleep_duration) returns and the next iteration begins.
SleepEnds ==
  /\ run_pc = "sleeping"
  /\ iterations < MaxIterations
  /\ wall_time' = wall_time + sleep_duration
  /\ run_pc' = "loop_top"
  /\ run_log' = <<>>
  /\ iterations' = iterations + 1
  /\ UNCHANGED <<besideRun, open_positions, last_cycle_time, cycle_count,
                 sleep_duration, interrupted, summary_count>>

\* The backoff after an exception returns and the next iteration begins.
BackoffEnds ==
  /\ run_pc = "backoff"
  /\ iterations < MaxIterations
  /\ wall_time' = wall_time + BackoffSeconds
  /\ run_pc' = "loop_top"
  /\ run_log' = <<>>
  /\ iterations' = iterations + 1
  /\ UNCHANGED <<besideRun, open_positions, last_cycle_time, cycle_count,
                 sleep_duration, interrupted, summary_count>>

\* A KeyboardInterrupt between two calls, during the sleep or the backoff.
KeyboardInterrupt ==
  /\ run_pc \in {"loop_top", "cycle_check", "sleeping", "backoff"}
  /\ run_pc' = OnKeyboardInterrupt(run_pc)
  /\ interrupted' = TRUE
  /\ UNCHANGED <<besideRun, open_positions, wall_time, last_cycle_time,
                 cycle_count, sleep_duration, run_log, summary_count,
                 iterations>>

\* The finally block: the final summary, then run returns.
FinalSummary ==
  /\ run_pc = "final_summary"
  /\ summary_count' = summary_count + 1
  /\ run_pc' = "exited"
  /\ UNCHANGED <<besideRun, open_positions, wall_time, last_cycle_time,
                 cycle_count, sleep_duration, run_log, interrupted,
                 iterations>>

(* -------------------------- specification ----------------------------- *)

\* The ledgers after construction.
InitLedgers ==
  /\ component \in {"PortfolioManager", "LiveTrader"}
  /\ now = 0
  /\ broker = <<>>
  /\ next_ticket = 1
  /\ pc = "idle"
  /\ eval_log = <<>>
  /\ enable_trailing_stop \in BOOLEAN
  /\ pm_open_positions = <<>>
  /\ open_positions = <<>>
  /\ closed_trades = <<>>
  /\ realized_pnl = 0
  /\ portfolio_value = initial_balance
  /\ cooldown = {}
  /\ cycle_positions = <<>>
  /\ cycle_log = <<>>
  /\ reinforcement_opportunities = <<>>
  /\ all_price_data = NoPriceData

NoPriceCall ==
  /\ price_call = NotCalled
  /\ price_result = NotCalled
  /\ reinforcement_order = NotCalled

\* The cache before its first use: both dicts empty.
EmptyCache ==
  /\ cache_now = 0
  /\ market_data_cache = <<>>
  /\ cache_timestamps = <<>>
  /\ last_known_prices = <<>>
  /\ cache_call = NotCalled
  /\ cache_calls = 0

\* get_config_value is not under study.
NoConfigValueCall ==
  /\ config_call = NotCalled
  /\ config_result = NotCalled

\* No function is under study on its own.
NoCalls ==
  /\ execute_task = NotCalled
  /\ execute_result = NotCalled
  /\ trade_decision = NotCalled
  /\ dispatch_result = NotCalled
  /\ NoPriceCall
  /\ EmptyCache
  /\ NoConfigValueCall

\* LiveTrader.__init__ with the configuration's defaults; run not yet called.
Init ==
  /\ InitLedgers
  /\ NoCalls
  /\ Configured(DefaultCyclePeriod, DefaultUpdateFrequency, TRUE)
  /\ RunNotStarted

\* The ledgers: PortfolioManager's handler, LiveTrader's monitoring tick.
Next ==
  \/ UpdatePortfolioState
  \/ CloseTradeReturns
  \/ MonitoringSync
  \/ MonitoringReinforce
  \/ MonitoringCheckAndClose
  \/ DecisionCycleAnalysis
  \/ CooldownExpires
  \/ BrokerOpens
  \/ BrokerCloses
  \/ Advance

Spec == Init /\ [][Next]_vars

\* The decision cycle of LiveTrader, call by call.
NextCycle ==
  \/ CycleStart
  \/ CycleValidate
  \/ AnalyzePositionsForReinforcement
  \/ CycleGuard
  \/ CycleCompensate
  \/ CycleAgents
  \/ CycleReturns
  \/ CooldownExpires
  \/ BrokerOpens
  \/ BrokerCloses

\* Only LiveTrader runs decision cycles.
InitCycle == Init /\ component = "LiveTrader"

SpecCycle == InitCycle /\ [][NextCycle]_vars

\* The reinforcement analysis of a decision cycle, its opportunity list kept.
NextAnalysis ==
  \/ CycleStart
  \/ CycleValidate
  \/ AnalysisObserved
  \/ BrokerOpens
  \/ BrokerCloses

SpecAnalysis == InitCycle /\ [][NextAnalysis]_vars

\* LiveTrader.run.
NextRun ==
  \/ RunStarts
  \/ MonitoringTick
  \/ CycleCheck
  \/ SleepEnds
  \/ BackoffEnds
  \/ KeyboardInterrupt
  \/ FinalSummary

\* LiveTrader constructed with one of the configurations.
InitRun ==
  /\ InitLedgers
  /\ NoCalls
  /\ component = "LiveTrader"
  /\ \E period \in CyclePeriods, freq \in UpdateFrequencies,
        enabled \in BOOLEAN : Configured(period, freq, enabled)
  /\ RunNotStarted

SpecRun == InitRun /\ [][NextRun]_vars

\* DataAnalystAgent.execute on its own.
NextExecute == ExecuteReturns

\* An 'mt5' task for one symbol, with the collector's behaviour chosen.
InitExecute ==
  /\ InitLedgers
  /\ Configured(DefaultCyclePeriod, DefaultUpdateFrequency, TRUE)
  /\ RunNotStarted
  /\ execute_task \in [called : {TRUE}, symbol : Symbols, connected : BOOLEAN,
                        fetch : [Timeframes -> FetchOutcomes]]
  /\ execute_result = NotCalled
  /\ trade_decision = NotCalled
  /\ dispatch_result = NotCalled
  /\ NoPriceCall
  /\ EmptyCache
  /\ NoConfigValueCall

SpecExecute == InitExecute /\ [][NextExecute]_vars

\* The new-trade dispatch of the cycle on its own.
NextDispatch == DispatchReturns

\* A cycle has reached the dispatch with some payload from the trader agent.
InitDispatch ==
  /\ InitLedgers
  /\ component = "LiveTrader"
  /\ Configured(DefaultCyclePeriod, DefaultUpdateFrequency, TRUE)
  /\ RunNotStarted
  /\ execute_task = NotCalled
  /\ execute_result = NotCalled
  /\ trade_decision \in [called : {TRUE}, payload : Payloads]
  /\ dispatch_result = NotCalled
  /\ NoPriceCall
  /\ EmptyCache
  /\ NoConfigValueCall

SpecDispatch == InitDispatch /\ [][NextDispatch]_vars

\* The entry-price functions and the caller of the optimized one.
NextPrice ==
  \/ PriceReturns
  \/ ReinforcementOrderSent

\* One of the two functions is about to be called.
InitPrice ==
  /\ InitLedgers
  /\ component = "LiveTrader"
  /\ Configured(DefaultCyclePeriod, DefaultUpdateFrequency, TRUE)
  /\ RunNotStarted
  /\ execute_task = NotCalled
  /\ execute_result = NotCalled
  /\ trade_decision = NotCalled
  /\ dispatch_result = NotCalled
  /\ price_call \in PriceCalls
  /\ price_result = NotCalled
  /\ reinforcement_order = NotCalled
  /\ EmptyCache
  /\ NoConfigValueCall

SpecPrice == InitPrice /\ [][NextPrice]_vars

\* The market data function called again and again.
NextCache ==
  \/ MarketDataCall
  \/ CacheTimePasses

InitCache ==
  /\ InitLedgers
  /\ component = "LiveTrader"
  /\ Configured(DefaultCyclePeriod, DefaultUpdateFrequency, TRUE)
  /\ RunNotStarted
  /\ execute_task = NotCalled
  /\ execute_result = NotCalled
  /\ trade_decision = NotCalled
  /\ dispatch_result = NotCalled
  /\ NoPriceCall
  /\ EmptyCache
  /\ NoConfigValueCall

SpecCache == InitCache /\ [][NextCache]_vars

(* ------------------------------ claims -------------------------------- *)

\* The evaluations of the running evaluator call, by evaluator.
PmEvaluations ==
  IF component = "PortfolioManager" THEN Range(eval_log) ELSE {}

LtEvaluations ==
  IF component = "LiveTrader" THEN Range(eval_log) ELSE {}

\* C1: in both ledgers the stored peak_pnl of a ticket never decreases from
\* one step to the next while the ticket stays tracked (a ticket absent from a
\* snapshot is dropped by that sync), whatever profits are reported.
C1_PeakNeverDecreases ==
  [][/\ \A t \in DOMAIN pm_open_positions \cap DOMAIN pm_open_positions' :
          pm_open_positions'[t].peak_pnl >= pm_open_positions[t].peak_pnl
     /\ \A i \in DOMAIN open_positions : \A j \in DOMAIN open_positions' :
          open_positions'[j].ticket = open_positions[i].ticket
            => open_positions'[j].peak_pnl >= open_positions[i].peak_pnl]_vars

\* C1, the case: after a monitoring tick's sync and evaluation a position
\* found on the broker is reported below the peak the ledger keeps for it.
C1_ProfitFellBelowPeak ==
  /\ component = "LiveTrader"
  /\ pc = "close_trade"
  /\ \E i \in DOMAIN open_positions :
       /\ open_positions[i].original_position_ticket = 0
       /\ open_positions[i].pnl < open_positions[i].peak_pnl

\* C2 as the claim states it: in a step of update_open_positions_pnl, for
\* whichever snapshot it read, every tracked position whose ticket is absent
\* from the snapshot is removed from open_positions, appears exactly once in
\* closed_trades, and its last pnl is added to realized_pnl.
C2_AbsentTicketArchived ==
  [][(pc = "idle" /\ pc' = "reinforce") =>
       \A snap \in Snapshots :
         (<<open_positions', closed_trades', realized_pnl', portfolio_value'>>
            = UpdateOpenPositionsPnl(snap))
         => LET gone == SelectSeq(open_positions,
                                  LAMBDA p : p.ticket \notin DOMAIN snap)
            IN /\ \A i \in DOMAIN gone :
                    /\ \A j \in DOMAIN open_positions' :
                         open_positions'[j].ticket # gone[i].ticket
                    /\ Cardinality({k \in DOMAIN closed_trades' :
                                      closed_trades'[k].ticket = gone[i].ticket}) = 1
               /\ realized_pnl' = realized_pnl
                                   + SumSeq([i \in DOMAIN gone |-> gone[i].pnl])]_vars

\* C2, the failing case reached: a sync has emptied a ledger that tracked a
\* position, and nothing was archived.
C2_ClearedWithoutArchive ==
  /\ pc = "reinforce"
  /\ open_positions = <<>>
  /\ closed_trades = <<>>

\* C3: _check_position_for_closure makes at most one close_trade call per
\* position, and its comment is that of the first rule that matches in the
\* order profit target, stop loss, time exit, trailing stop.
C3_PmFirstMatchOnly ==
  \A e \in PmEvaluations :
    /\ Len(e.calls) <= 1
    /\ e.pnl >= profit_target => e.calls = <<"Profit Target">>
    /\ (e.pnl < profit_target /\ e.pnl <= stop_loss) => e.calls = <<"Stop Loss">>
    /\ (e.pnl >= profit_target \/ e.pnl <= stop_loss)
         => /\ "Trailing Stop" \notin Range(e.calls)
            /\ "Max Duration" \notin Range(e.calls)
    /\ (e.pnl < profit_target /\ e.pnl > stop_loss
        /\ e.age >= max_position_duration_hours) => e.calls = <<"Max Duration">>
    /\ "Trailing Stop" \in Range(e.calls)
         => /\ e.pnl < profit_target
            /\ e.pnl > stop_loss
            /\ e.age < max_position_duration_hours

\* C3, the case: a position over the profit target that is also past the
\* maximum duration and under its trailing stop level was evaluated.
C3_SeveralRulesMatch ==
  \E e \in PmEvaluations :
    /\ e.pnl >= profit_target
    /\ e.age >= max_position_duration_hours
    /\ enable_trailing_stop
    /\ e.peak_pnl >= trailing_stop_trigger_pnl
    /\ e.calls = <<"Profit Target">>

\* C4 as the claim states it: in check_and_close_positions a position gets at
\* most one close and, when take profit or stop loss holds (here by the
\* evaluator's own strict comparison) together with the time-exit or
\* trailing-stop condition, the reason is the take-profit or stop-loss one.
C4_LtFirstMatchReason ==
  \A e \in LtEvaluations :
    /\ Len(e.calls) <= 1
    /\ e.pnl > lt_take_profit => e.calls = <<"take profit target">>
    /\ e.pnl < lt_stop_loss => e.calls = <<"stop loss target">>

\* C4, the failing case reached: a position over the take-profit level and
\* older than four hours is closed as a time-based exit.
C4_TakeProfitOverwritten ==
  \E e \in LtEvaluations :
    /\ e.pnl > lt_take_profit
    /\ e.age > lt_max_age_hours
    /\ e.calls = <<"time-based exit">>

\* C5: in both evaluators a close with the trailing-stop reason is issued
\* only if the position's peak P&L at the evaluation is at least the trigger
\* (30) and, in PortfolioManager, only if the trailing stop is enabled.
C5_TrailingOnlyAboveTrigger ==
  /\ \A e \in PmEvaluations :
       "Trailing Stop" \in Range(e.calls)
         => e.peak_pnl >= 30 /\ enable_trailing_stop
  /\ \A e \in LtEvaluations :
       "trailing stop" \in Range(e.calls) => e.peak_pnl >= 30

\* C5, the case: the monitoring tick's evaluator has closed a position with
\* the trailing-stop reason.
C5_TrailingStopIssued ==
  \E e \in LtEvaluations : e.calls = <<"trailing stop">>

\* C6 as the claim states it, the stop level: in both evaluators a close with
\* the trailing-stop reason is issued only when the current P&L is at most
\* the peak P&L minus the trailing distance (15), so that after a peak of 40 a
\* P&L of 26 or 27 does not fire.
C6_TrailingAtDistance ==
  /\ \A e \in PmEvaluations :
       "Trailing Stop" \in Range(e.calls)
         => e.pnl <= e.peak_pnl - trailing_stop_distance_pnl
  /\ \A e \in LtEvaluations :
       "trailing stop" \in Range(e.calls)
         => e.pnl <= e.peak_pnl - trailing_stop_distance_pnl

\* C6, the failing case reached: peak 40, current P&L 27, closed by the
\* trailing stop of the monitoring tick.
C6_FiresAboveStopLevel ==
  \E e \in LtEvaluations :
    /\ e.peak_pnl = 40
    /\ e.pnl = 27
    /\ e.calls = <<"trailing stop">>

\* C7 as the claim states it: on a monitoring tick a position whose P&L is at
\* least the profit target (75), or at most the stop loss (-50), receives a
\* close instruction.
C7_LtInclusiveLimits ==
  \A e \in LtEvaluations :
    (e.pnl >= 75 \/ e.pnl <= -50) => e.calls # <<>>

\* C7, the failing case reached: a position at exactly 75 is evaluated and
\* no close is issued.
C7_AtTargetNotClosed ==
  \E e \in LtEvaluations : e.pnl = 75 /\ e.calls = <<>>

\* C8 as the claim states it: in both evaluators a position whose P&L is
\* strictly between stop loss and profit target and whose age is at least 4
\* hours receives exactly one close, with the time-based-exit reason.
C8_TimeExitReason ==
  /\ \A e \in PmEvaluations :
       (stop_loss < e.pnl /\ e.pnl < profit_target
        /\ e.age >= max_position_duration_hours)
         => e.calls = <<"Max Duration">>
  /\ \A e \in LtEvaluations :
       (-50 < e.pnl /\ e.pnl < 75 /\ e.age >= 4)
         => e.calls = <<"time-based exit">>

\* C8, the failing case reached: a position older than four hours, P&L
\* between the limits, is closed with the trailing-stop reason.
C8_TimeExitOverwritten ==
  \E e \in LtEvaluations :
    /\ -50 < e.pnl /\ e.pnl < 75
    /\ e.age > 4
    /\ e.calls = <<"trailing stop">>

\* The calls of a cycle that send an order for a new position.
OrderOps == {"reinforce", "compensate", "open"}

\* C9 as the claim states it: in a cycle whose equity stop is breached, no
\* reinforcement, compensation or new trade is sent to the broker before the
\* liquidation.
C9_LiquidationFirst ==
  \A i \in DOMAIN cycle_log :
    cycle_log[i].op = "equity_stop"
      => \A j \in 1..(i - 1) : cycle_log[j].op \notin OrderOps

\* C9, the failing case reached: the cycle sent a dynamic reinforcement order
\* and then found the equity stop breached.
C9_ReinforcedBeforeStop ==
  \E i \in DOMAIN cycle_log : \E j \in 1..(i - 1) :
    /\ cycle_log[i].op = "equity_stop"
    /\ cycle_log[j].op = "reinforce"

\* C10 as the claim states it: when the equity stop is breached every
\* position open at the broker at that moment receives a close_trade, and the
\* cycle ends without the decision agents or a new trade.
C10_EveryOpenPositionClosed ==
  \A i \in DOMAIN cycle_log :
    cycle_log[i].op = "equity_stop"
      => /\ \A t \in cycle_log[i].open :
              \E j \in DOMAIN cycle_log :
                /\ j > i
                /\ cycle_log[j].op = "close_equity_stop"
                /\ cycle_log[j].ticket = t
         /\ \A j \in DOMAIN cycle_log :
              j > i => cycle_log[j].op \notin {"agents", "open"}

\* C10, the failing case reached: the position a reinforcement opened earlier
\* in the cycle is open at the broker when the stop is breached and the cycle
\* ends without a close_trade for it.
C10_ReinforcementLeftOpen ==
  /\ pc = "cycle_done"
  /\ \E i \in DOMAIN cycle_log :
       /\ cycle_log[i].op = "equity_stop"
       /\ \E t \in cycle_log[i].open :
            /\ \E k \in DOMAIN open_positions :
                 /\ open_positions[k].ticket = t
                 /\ open_positions[k].original_position_ticket # 0
            /\ \A j \in DOMAIN cycle_log :
                 ~(cycle_log[j].op = "close_equity_stop" /\ cycle_log[j].ticket = t)

\* C11: when the session-end check reports the end of the session, every
\* position of the cycle's snapshot receives a close_trade, and the cycle makes
\* no other call afterwards (no compensation loop, agents or new trade) and
\* returns.
C11_SessionEndClosesAll ==
  \A i \in DOMAIN cycle_log :
    cycle_log[i].op = "session_end"
      => /\ pc = "cycle_done"
         /\ \A t \in Range(cycle_positions) :
              \E j \in DOMAIN cycle_log :
                /\ j > i
                /\ cycle_log[j].op = "close_session_end"
                /\ cycle_log[j].ticket = t
         /\ \A j \in DOMAIN cycle_log :
              j > i => cycle_log[j].op = "close_session_end"

\* C11, the case: a cycle with two positions in its snapshot has ended on the
\* session-end check.
C11_SessionEndedWithPositions ==
  /\ pc = "cycle_done"
  /\ Len(cycle_positions) = 2
  /\ \E i \in DOMAIN cycle_log : cycle_log[i].op = "session_end"

\* C12: execute_dynamic_reinforcement sends an order only for a position
\* with no unexpired cooldown record and rejects ("in cooling period") exactly
\* the positions that have one; a successful reinforcement of a ticket records
\* its cooldown in the same call, so that no further order for it is sent
\* until the cooldown expires, even for plans queued in the same pass.
C12_NoOrderWhileCooling ==
  /\ [](\A i \in DOMAIN cycle_log :
          /\ cycle_log[i].op = "reinforce"
               => cycle_log[i].ticket \notin cycle_log[i].cooling
          /\ cycle_log[i].op = "in_cooling_period"
               => cycle_log[i].ticket \in cycle_log[i].cooling)
  /\ [][\A k \in DOMAIN open_positions' :
          k > Len(open_positions)
            => open_positions'[k].original_position_ticket \in cooldown']_vars

\* C12, the case: in one pass a reinforcement order for a ticket was sent and
\* executed, and a second plan queued for the same ticket was rejected.
C12_SecondPlanRejected ==
  \E i, j \in DOMAIN cycle_log :
    /\ i < j
    /\ cycle_log[i].op = "reinforce"
    /\ cycle_log[j].op = "in_cooling_period"
    /\ cycle_log[j].ticket = cycle_log[i].ticket
    /\ cycle_log[i].ticket \notin cycle_log[i].cooling

\* The calls of the running cycle, among those named in ops, whose order the
\* broker executed: the broker has assigned a ticket by the next call.
ExecutedOrders(ops) ==
  {i \in DOMAIN cycle_log :
     /\ cycle_log[i].op \in ops
     /\ cycle_log[i].next_ticket
          < (IF i < Len(cycle_log) THEN cycle_log[i + 1].next_ticket
             ELSE next_ticket)}

\* C13 as the claim states it: in one decision cycle no more than 3
\* reinforcement or compensation trades are executed in total.
C13_AtMostThreeExecuted ==
  Cardinality(ExecutedOrders({"reinforce", "compensate"}))
    <= max_reinforcements_per_cycle

\* C13, the failing case reached: the cycle is past its compensation loop and
\* four reinforcement or compensation trades were executed in it.
C13_FourExecuted ==
  /\ pc = "cycle_agents"
  /\ Cardinality(ExecutedOrders({"reinforce", "compensate"})) = 4

\* Opportunity i of the list the analysis built goes before opportunity j:
\* higher plan priority, or the same priority and found earlier.
GoesBefore(i, j) ==
  LET found == reinforcement_opportunities
  IN \/ found[i].priority > found[j].priority
     \/ found[i].priority = found[j].priority /\ i < j

\* C14: the opportunities analyze_positions_for_reinforcement attempts are
\* exactly the (at most) 3 that go before all others by plan priority, ties in
\* discovery order; they are attempted in that order, one call each, whether
\* or not an earlier one failed, and no other opportunity is attempted.
C14_TopThreeAttempted ==
  pc = "cycle_guard" =>
    LET found == reinforcement_opportunities
        n == Len(found)
        k == IF n < 3 THEN n ELSE 3
    IN \E idx \in [1..k -> 1..n] :
         /\ \A a, b \in 1..k : a < b => GoesBefore(idx[a], idx[b])
         /\ \A j \in 1..n : (\A a \in 1..k : idx[a] # j)
                              => \A a \in 1..k : GoesBefore(idx[a], j)
         /\ Len(cycle_log) = k
         /\ \A a \in 1..k :
              /\ cycle_log[a].ticket = found[idx[a]].ticket
              /\ cycle_log[a].op \in
                   (IF found[idx[a]].type = "UFO-based" THEN {"compensate"}
                    ELSE {"reinforce", "in_cooling_period"})

\* C14, the case: four opportunities were found, the first of them with the
\* lowest priority; three were attempted although the first attempt failed.
C14_FourFoundOneFailed ==
  /\ pc = "cycle_guard"
  /\ Len(reinforcement_opportunities) = 4
  /\ reinforcement_opportunities[1].priority = 0
  /\ \A i \in 2..4 : reinforcement_opportunities[i].priority = 1
  /\ ~reinforcement_opportunities[2].ok
  /\ Len(cycle_log) = 3
  /\ cycle_log[1].ticket = reinforcement_opportunities[2].ticket

\* C15: a failed open (execute_dynamic_reinforcement whose order the broker
\* does not execute) leaves open_positions, the cooldown records and the
\* broker as they are, and a close_trade that fails leaves open_positions,
\* closed_trades, realized_pnl and the cooldown records as they are.
C15_FailureLeavesLedger ==
  /\ [](\A t \in DOMAIN broker :
          LET st == ExecuteDynamicReinforcement(Current(<<>>), t, FALSE)
          IN /\ st.open_positions = open_positions
             /\ st.cooldown = cooldown
             /\ st.broker = broker
             /\ st.next_ticket = next_ticket)
  /\ [][(/\ component = "LiveTrader"
         /\ pc = "close_trade"
         /\ Called(eval_log) \cap DOMAIN broker' # {})
          => UNCHANGED <<open_positions, closed_trades, realized_pnl,
                         cooldown>>]_vars

\* C15, the case: a tracked position above the take-profit level, for which
\* the evaluator of its tick called close_trade, is still open at the broker
\* after the tick: the close failed.
C15_CloseFailed ==
  /\ component = "LiveTrader"
  /\ pc = "idle"
  /\ \E i \in DOMAIN open_positions :
       /\ open_positions[i].pnl > lt_take_profit
       /\ open_positions[i].ticket \in DOMAIN broker

\* The names of the calls the running iteration of run has made.
CallsOf(log) == {log[i].call : i \in DOMAIN log}

\* C16: run_main_trading_cycle is invoked only in an iteration in which the
\* cycle is due and is_active_session() returned true; when the cycle is due
\* and the session is inactive the cycle is not invoked and last_cycle_time
\* is set to the current time.
C16_CycleOnlyInActiveSession ==
  [][(run_pc = "cycle_check") =>
       LET due == wall_time - last_cycle_time >= cycle_period_seconds
           before == CallsOf(run_log)
           after == CallsOf(run_log')
       IN /\ ("cycle" \in after \ before)
               => due /\ "outside_session" \notin after
          /\ ("outside_session" \in after \ before)
               => /\ due
                  /\ "cycle" \notin after
                  /\ last_cycle_time' = wall_time'
                  /\ open_positions' = open_positions
          /\ ~due => after = before /\ last_cycle_time' = last_cycle_time]_vars

\* A due cycle was skipped outside the session and rescheduled.
C16_SkippedOutsideSession ==
  /\ run_pc = "sleeping"
  /\ "outside_session" \in CallsOf(run_log)
  /\ last_cycle_time = wall_time
  /\ iterations > 0

\* The time from the running iteration's clock reading to the next monitoring
\* tick: a tick is run once a whole update period has passed since
\* last_cycle_time, and one update period after a tick.
TimeToNextTick ==
  LET elapsed == wall_time - last_cycle_time
  IN IF elapsed >= position_update_frequency_seconds
     THEN position_update_frequency_seconds
     ELSE position_update_frequency_seconds - elapsed

\* C17: at the end of an iteration without exception the sleep is at least
\* one second, does not exceed the time to the next decision cycle when that
\* time is at least one second, and does not exceed the time to the next
\* monitoring tick when monitoring is active.
C17_SleepIsMinimumRemaining ==
  (run_pc = "sleeping") =>
    LET time_to_next_cycle ==
          (last_cycle_time + cycle_period_seconds) - wall_time
    IN /\ sleep_duration >= SleepFloor
       /\ (time_to_next_cycle >= SleepFloor)
            => sleep_duration <= time_to_next_cycle
       /\ (continuous_monitoring_enabled /\ open_positions # <<>>)
            => sleep_duration <= TimeToNextTick

\* An iteration with monitoring active ends with a sleep below one second.
C17_SleepBelowFloor ==
  /\ run_pc = "sleeping"
  /\ continuous_monitoring_enabled
  /\ open_positions # <<>>
  /\ sleep_duration = position_update_frequency_seconds
  /\ sleep_duration < SleepFloor

\* C18: whenever the decision cycle is due it runs to completion, or is
\* skipped for an inactive session, before any monitoring tick runs: no
\* iteration calls continuous_position_monitoring and then, at the same clock
\* reading, finds the cycle due.
C18_DueCycleBeforeMonitoring ==
  \A i, j \in DOMAIN run_log :
    (i < j /\ run_log[i].call = "monitoring")
      => run_log[j].call \notin {"cycle", "outside_session"}

\* A monitoring tick ran in the iteration in which the due cycle then ran to
\* completion.
C18_MonitoringRanFirst ==
  /\ run_pc = "sleeping"
  /\ Len(run_log) = 2
  /\ run_log[1].call = "monitoring"
  /\ run_log[2].call = "cycle"
  /\ run_log[1].at = run_log[2].at
  /\ last_cycle_time = wall_time

\* C19: an exception other than a KeyboardInterrupt raised inside an iteration
\* does not end the loop: the loop is left only by a KeyboardInterrupt, and
\* from the exception handler run waits the 60 second backoff and starts
\* another iteration.
C19_ExceptionBacksOffAndContinues ==
  /\ [](run_pc \in {"final_summary", "exited"} => interrupted)
  /\ [][(run_pc = "backoff" /\ ~interrupted')
          => /\ run_pc' = "loop_top"
             /\ wall_time' = wall_time + BackoffSeconds
             /\ iterations' = iterations + 1
             /\ last_cycle_time' = last_cycle_time]_vars

\* The first cycle raised; a minute later the second iteration has begun with
\* the cycle still not recorded as run.
C19_IterationAfterBackoff ==
  /\ run_pc = "loop_top"
  /\ iterations = 1
  /\ cycle_count = 1
  /\ wall_time = BackoffSeconds
  /\ last_cycle_time < 0
  /\ ~interrupted

\* C20: after a KeyboardInterrupt, raised inside a call, between calls, during
\* the sleep or during the backoff, run starts no further tick, cycle or
\* iteration, and the final summary is logged exactly once before run exits.
C20_InterruptStopsAndSummarises ==
  /\ [](summary_count <= 1)
  /\ [](run_pc = "exited" => summary_count = 1)
  /\ [](interrupted => run_pc \in {"final_summary", "exited"})
  /\ [][interrupted
          => /\ run_log' = run_log
             /\ cycle_count' = cycle_count
             /\ iterations' = iterations
             /\ wall_time' = wall_time
             /\ run_pc' = "exited"]_vars

\* run has exited after an interrupt that arrived outside the handlers, in a
\* later iteration, with its one summary logged.
C20_ExitedWithSummary ==
  /\ run_pc = "exited"
  /\ interrupted
  /\ summary_count = 1
  /\ iterations > 0
  /\ run_log = <<>>

\* C21: when no symbol returned price data, or no (symbol, timeframe) table has
\* a valid close column, the cycle is skipped: it goes straight to its return,
\* sends no close, reinforcement or new trade, calls no agent, and leaves the
\* broker and the ledger as they were.
C21_NoDataSkipsCycle ==
  /\ [][(/\ pc = "cycle_data"
         /\ pc' # "cycle_data"
         /\ \A s \in Symbols, tf \in Timeframes :
              s \notin DOMAIN all_price_data \/ all_price_data[s][tf] # "bars")
        => /\ pc' = "cycle_done"
           /\ Len(cycle_log') = 1
           /\ cycle_log'[1].op \in {"no_price_data", "no_valid_data"}
           /\ UNCHANGED <<broker, next_ticket, open_positions, closed_trades,
                          cooldown>>]_vars
  /\ [][(/\ pc = "cycle_done"
         /\ pc' # "cycle_done"
         /\ cycle_log # <<>>
         /\ cycle_log[1].op \in {"no_price_data", "no_valid_data"})
        => pc' = "idle" /\ UNCHANGED <<broker, next_ticket, open_positions>>]_vars

\* A cycle was skipped for lack of a close column while a position was open.
C21_SkippedWithPositionOpen ==
  /\ pc = "cycle_done"
  /\ Len(cycle_log) = 1
  /\ cycle_log[1].op = "no_valid_data"
  /\ DOMAIN broker # {}

\* C22: execute for an 'mt5' task skips a timeframe that gave no bars, empty
\* bars or raised (it is mapped to None) and still fetches the others; the
\* result is None exactly when the connection failed or no timeframe gave
\* non-empty data, and otherwise has one key per requested timeframe and at
\* least one table.
C22_ExecuteToleratesBadTimeframes ==
  (execute_result # NotCalled) =>
    LET usable == {tf \in Timeframes :
                     execute_task.fetch[tf] \in {"bars", "bars_no_close"}}
        r == execute_result.value
    IN /\ r.none <=> (~execute_task.connected \/ usable = {})
       /\ ~r.none =>
            /\ DOMAIN r.data = Timeframes
            /\ \A tf \in Timeframes :
                 IF tf \in usable THEN r.data[tf] = execute_task.fetch[tf]
                 ELSE r.data[tf] = "None"
            /\ \E tf \in Timeframes : r.data[tf] # "None"

\* One timeframe raised, the other gave bars, and execute returned the bars.
C22_OneTimeframeRaised ==
  /\ execute_result # NotCalled
  /\ execute_task.fetch["M5"] = "raises"
  /\ execute_task.fetch["H1"] = "bars"
  /\ ~execute_result.value.none
  /\ execute_result.value.data["M5"] = "None"
  /\ execute_result.value.data["H1"] = "bars"

\* The entries of the studied payload's action list.
PayloadEntries ==
  IF trade_decision.payload.form = "object" /\ trade_decision.payload.list
  THEN trade_decision.payload.value
  ELSE <<>>

\* C23: a malformed entry of the payload (symbol missing or not a configured
\* symbol, direction other than BUY or SELL, volume missing or not a number)
\* is no action: no order is sent for it, so no order carries a filled-in
\* value.
C23_MalformedEntryIsNoAction ==
  (dispatch_result # NotCalled) =>
    \A k \in DOMAIN dispatch_result.value.orders :
      LET o == dispatch_result.value.orders[k]
          e == PayloadEntries[o.entry]
      IN /\ e.kind = "mapping"
         /\ e.symbol \in Symbols
         /\ Upper(e.direction) \in {"BUY", "SELL"}
         /\ e.volume \notin {"missing", "abc"}

\* An entry with neither symbol nor volume was sent as an order for "-ECN" of
\* 0.1 lot.
C23_GuessedOrderSent ==
  /\ dispatch_result # NotCalled
  /\ trade_decision.payload.form = "object"
  /\ trade_decision.payload.key = "actions"
  /\ Len(PayloadEntries) = 1
  /\ PayloadEntries[1].kind = "mapping"
  /\ PayloadEntries[1].symbol = "missing"
  /\ PayloadEntries[1].volume = "missing"
  /\ dispatch_result.value.orders =
       <<[entry |-> 1, symbol |-> "-ECN", direction |-> "BUY",
          volume |-> DefaultVolume]>>

C25_NewTradeOnlyWhenApproved ==
  \A i \in DOMAIN cycle_log :
    cycle_log[i].op = "open"
      => /\ \E j \in 1..(i - 1) : cycle_log[j].op = "risk_OK"
         /\ \E j \in 1..(i - 1) : cycle_log[j].op = "authorization_APPROVE"
         /\ \A j \in DOMAIN cycle_log :
              cycle_log[j].op \notin {"risk_STOP_LOSS_BREACHED",
                                      "authorization_REJECT",
                                      "authorization_REJECT: risk exceeds limit"}

\* The fund manager rejected the plan for exceeding the risk limit and the
\* cycle executed a new trade all the same.
C25_TradeAfterRejection ==
  /\ pc = "cycle_done"
  /\ \E i \in DOMAIN cycle_log : \E j \in 1..(i - 1) :
       /\ cycle_log[j].op = "authorization_REJECT: risk exceeds limit"
       /\ i \in ExecutedOrders({"open"})

C27_NoQuoteFallsBackToMarket ==
  /\ (price_result # NotCalled /\ ~price_call.quote.available)
       => price_result.value.none
  /\ (reinforcement_order # NotCalled /\ ~price_call.quote.available)
       => /\ reinforcement_order.value.sent
          /\ reinforcement_order.value.limit_price.none

\* The reinforcement order went out although there was no quote.
C27_OrderSentWithoutQuote ==
  /\ reinforcement_order # NotCalled
  /\ ~price_call.quote.available
  /\ price_result.value.none
  /\ reinforcement_order.value.sent

\* C28: when a call with use_cache returns, whatever its outcome, the cache
\* holds no entry older than 60 seconds, and _market_data_cache and
\* _cache_timestamps have the same keys.
C28_CacheHoldsNoOldEntry ==
  /\ DOMAIN market_data_cache = DOMAIN cache_timestamps
  /\ (cache_call # NotCalled /\ cache_call.use_cache)
       => \A k \in DOMAIN cache_timestamps :
            cache_now - cache_timestamps[k] <= CacheKeep

\* A call with use_cache returned after a failed connection and the cache
\* still holds an entry stored more than 60 seconds before.
C28_OldEntryAfterFailedConnection ==
  /\ cache_call # NotCalled
  /\ cache_call.use_cache
  /\ cache_call.outcome = "connect_fails"
  /\ \E k \in DOMAIN cache_timestamps :
       cache_now - cache_timestamps[k] > CacheKeep

(* ------------------------- C29: the two syncs --------------------------- *)

\* The tickets of a list of positions.
TicketsIn(positions) == {positions[i].ticket : i \in DOMAIN positions}

Instruments == [symbol : Symbols, type : {0, 1}]

\* Tickets the broker hands out where a reinforcement's position is followed:
\* the original, the reinforcement's and one more.
MaxReinforceTickets == 3

\* Profits the broker reports there: a loss and a gain, neither the 0.0 a
\* reinforcement registers.
ReinforcePnlValues == {-50, 40}

\* The monitoring tick and the cycle's reinforcement analysis, on an account
\* whose positions are opened in any instrument.
NextReinforce ==
  \/ MonitoringSyncOf(ReinforcePnlValues)
  \/ MonitoringReinforce
  \/ MonitoringCheckAndClose
  \/ CloseTradeReturns
  \/ DecisionCycleAnalysis
  \/ BrokerOpens

InitReinforce ==
  /\ InitLedgers
  /\ component = "LiveTrader"
  /\ enable_trailing_stop = TRUE
  /\ NoCalls
  /\ cycle_period_seconds = DefaultCyclePeriod
  /\ position_update_frequency_seconds = DefaultUpdateFrequency
  /\ continuous_monitoring_enabled = TRUE
  /\ instruments = Instruments
  /\ last_ticket = MaxReinforceTickets
  /\ RunNotStarted

SpecReinforce == InitReinforce /\ [][NextReinforce]_vars

\* The positions of the ledger with ticket n.
TrackedAs(positions, n) == {i \in DOMAIN positions : positions[i].ticket = n}

\* A step of check_and_execute_dynamic_reinforcement registers each position
\* its orders opened: the list grows by one position per new ticket, that
\* position has the new ticket, the symbol and direction of the position the
\* order was sent for and that position's ticket as original_position_ticket,
\* and the cooldown gains a record for exactly those original tickets.
ReinforcementRegisters ==
  (pc = "reinforce" /\ pc' = "evaluate") =>
    LET new == DOMAIN broker' \ DOMAIN broker
    IN /\ Len(open_positions') = Len(open_positions) + Cardinality(new)
       /\ SubSeq(open_positions', 1, Len(open_positions)) = open_positions
       /\ cooldown' = cooldown \cup {broker'[n].comment : n \in new}
       /\ \A n \in new :
            LET t == broker'[n].comment
            IN /\ t \in DOMAIN broker
               /\ Cardinality(TrackedAs(open_positions', n)) = 1
               /\ \A i \in TrackedAs(open_positions', n) :
                    /\ open_positions'[i].original_position_ticket = t
                    /\ open_positions'[i].symbol = broker[t].symbol
                    /\ open_positions'[i].direction = Direction(broker[t].type)

\* After a sync, every tracked position that a reinforcement order opened
\* (the broker's row carries the order's comment) has its link to the
\* original ticket.
LinkKept ==
  pc = "reinforce" =>
    \A i \in DOMAIN open_positions :
      LET n == open_positions[i].ticket
      IN (n \in DOMAIN broker /\ broker[n].comment # 0)
           => open_positions[i].original_position_ticket = broker[n].comment

\* C30, the registration: a successful reinforcement records the cooldown
\* for the original ticket and appends exactly one position with the new
\* ticket, the original's symbol and direction and original_position_ticket
\* equal to the original ticket.
C30_RegistersOneLinkedPosition == [][ReinforcementRegisters]_vars

\* C30 as the claim states it: the registration above, and the link is still
\* present after every later sync in which the new ticket is reported.
C30_LinkPresentAfterSyncs == [][ReinforcementRegisters]_vars /\ []LinkKept

\* C30, the failing case reached: a sync has just reported a position that a
\* reinforcement opened for a ticket, and the ledger tracks it with no link.
C30_ReportedWithoutLink ==
  /\ pc = "reinforce"
  /\ \E i \in DOMAIN open_positions :
       /\ open_positions[i].ticket \in DOMAIN broker
       /\ broker[open_positions[i].ticket].comment # 0
       /\ open_positions[i].original_position_ticket = 0
       /\ open_positions[i].symbol = broker[open_positions[i].ticket].symbol

\* C30, the registration reached: a SELL position registered by a
\* reinforcement, with its link.
C30_SellReinforcementRegistered ==
  /\ pc = "evaluate"
  /\ \E i \in DOMAIN open_positions :
       /\ open_positions[i].original_position_ticket # 0
       /\ open_positions[i].direction = "SELL"
       /\ open_positions[i].pnl = 0

(* ------------------- C31: one attempt per tick ------------------------- *)

\* A row of PortfolioManager's snapshot meets one of its closure rules.
PmMeetsRule(pnl, peak_pnl, age) ==
  \/ pnl >= profit_target
  \/ pnl <= stop_loss
  \/ age >= max_position_duration_hours
  \/ /\ enable_trailing_stop
     /\ peak_pnl >= trailing_stop_trigger_pnl
     /\ pnl <= peak_pnl - trailing_stop_distance_pnl

\* A tracked position of LiveTrader meets one of its closure rules.
LtMeetsRule(pnl, peak_pnl, age) ==
  \/ pnl > lt_take_profit
  \/ pnl < lt_stop_loss
  \/ age > lt_max_age_hours
  \/ /\ pnl <= peak_pnl
     /\ peak_pnl > lt_trailing_trigger
     /\ lt_trailing_den * pnl < lt_trailing_num * peak_pnl

\* The rows of an evaluation log about ticket t.
RowsOf(log, t) == {i \in DOMAIN log : log[i].ticket = t}

C31_CycleAttemptsOnce ==
  /\ \A t \in 1..MaxCycleTickets :
       Cardinality({i \in DOMAIN cycle_log :
                      /\ cycle_log[i].ticket = t
                      /\ cycle_log[i].op \in {"close_equity_stop",
                                              "close_session_end",
                                              "close_ufo"}}) <= 1
  /\ Cardinality({i \in DOMAIN cycle_log : cycle_log[i].op = "open"})
       <= MaxTrades

(* ------------------- C32: the order of a monitoring tick ---------------- *)

\* C32: a monitoring tick is sync, then reinforcement check, then closure
\* rules. The reinforcement check starts only from the state the sync left
\* and leaves the P&L the sync wrote as it is; the closure rules start only
\* from the state the reinforcement check left, while the clock and the
\* broker have not moved otherwise, and they are applied to exactly the
\* positions and P&L of that state.
C32_SyncThenReinforceThenClose ==
  [][/\ (pc' = "reinforce" /\ pc # "reinforce")
          => /\ pc = "idle"
             /\ now' = now
             /\ TicketsIn(open_positions') \in {DOMAIN broker, {}}
     /\ pc = "reinforce"
          => /\ pc' = "evaluate"
             /\ now' = now
             /\ Len(open_positions') >= Len(open_positions)
             /\ SubSeq(open_positions', 1, Len(open_positions)) = open_positions
     /\ (component = "LiveTrader" /\ pc' = "close_trade"
         /\ pc # "close_trade")
          => /\ pc = "evaluate"
             /\ now' = now
             /\ Len(eval_log') = Len(open_positions)
             /\ \A i \in DOMAIN open_positions :
                  /\ eval_log'[i].ticket = open_positions[i].ticket
                  /\ eval_log'[i].pnl = open_positions[i].pnl
                  /\ (eval_log'[i].calls # <<>>)
                       = LtMeetsRule(open_positions[i].pnl,
                                     open_positions[i].peak_pnl,
                                     now - open_positions[i].timestamp)]_vars

\* C32, the case reached: a tick whose sync wrote a profit above the
\* take-profit level, whose reinforcement check registered a new position,
\* and whose closure rules then marked the first and left the new one.
C32_ReinforcedThenMarked ==
  /\ component = "LiveTrader"
  /\ pc = "close_trade"
  /\ \E i, j \in DOMAIN open_positions :
       /\ open_positions[i].pnl > lt_take_profit
       /\ eval_log[i].calls # <<>>
       /\ open_positions[j].original_position_ticket = open_positions[i].ticket
       /\ open_positions[j].timestamp = now
       /\ open_positions[j].pnl = 0
       /\ eval_log[j].calls = <<>>

(* ------------------- C33: who starts a monitoring tick ------------------ *)

\* The monitoring tick and the cycle's reinforcement analysis with the
\* progress run gives them: an iteration follows every sleep, so a tick that
\* stays due is started, and a started tick runs its three steps and gets
\* its answers from the broker. Whether an analysis finds an opportunity is
\* the market's affair: nothing obliges it to.
SpecMonitoring ==
  /\ SpecReinforce
  /\ WF_vars(MonitoringSyncOf(ReinforcePnlValues))
  /\ WF_vars(MonitoringReinforce)
  /\ WF_vars(MonitoringCheckAndClose)
  /\ WF_vars(CloseTradeReturns)

\* C33: with continuous monitoring enabled, a position the broker reports is
\* eventually evaluated by the closure rules of a monitoring tick, also when
\* open_positions is empty at that time.
C33_ReportedPositionEvaluated ==
  \A t \in 1..MaxReinforceTickets :
    (continuous_monitoring_enabled /\ t \in DOMAIN broker)
      ~> (pc = "close_trade" /\ RowsOf(eval_log, t) # {})

\* C33, the failing case reached: monitoring is enabled, the broker reports
\* a position, the ledger is empty and run is between handlers: no
\* monitoring tick can start.
C33_ReportedButNoTick ==
  /\ component = "LiveTrader"
  /\ continuous_monitoring_enabled
  /\ pc = "idle"
  /\ DOMAIN broker # {}
  /\ open_positions = <<>>
  /\ ~ENABLED MonitoringSyncOf(ReinforcePnlValues)

(* ------------------- C34, C35: the ledger's sums ------------------------ *)

\* The sum of the pnl fields of a list of positions or closed trades.
SumPnl(s) == SumSeq([i \in DOMAIN s |-> s[i].pnl])

\* C34 as the claim states it: when update_open_positions_pnl has returned,
\* whatever snapshot it received, portfolio_value equals initial_balance +
\* realized_pnl + the sum of pnl over open_positions.
C34_PortfolioValueIsSum ==
  pc = "reinforce"
    => portfolio_value = initial_balance + realized_pnl + SumPnl(open_positions)

\* C34, the failing case reached: the sync has emptied the ledger on an empty
\* or unavailable snapshot and portfolio_value still counts the profit of
\* the positions it dropped.
C34_StaleValueAfterEmptySnapshot ==
  /\ pc = "reinforce"
  /\ open_positions = <<>>
  /\ portfolio_value # initial_balance + realized_pnl

\* C35: in every state of LiveTrader, realized_pnl is the sum of the pnl of
\* the entries of closed_trades, and no ticket is both in open_positions and
\* in closed_trades.
C35_RealizedIsSumOfClosed ==
  component = "LiveTrader"
    => /\ realized_pnl = SumPnl(closed_trades)
       /\ TicketsIn(open_positions) \cap TicketsIn(closed_trades) = {}

\* C35, the case reached: a trade archived with a profit other than 0 while
\* another position is tracked.
C35_ArchivedBesideOpen ==
  /\ component = "LiveTrader"
  /\ open_positions # <<>>
  /\ \E k \in DOMAIN closed_trades : closed_trades[k].pnl # 0

(* ------------------- C36: what gets archived ---------------------------- *)

\* C36 as the claim states it: every entry of closed_trades was reported by
\* the broker in some snapshot before it was archived, that is, a sync has
\* written its 'last_update'.
C36_ArchivedWasReported ==
  \A k \in DOMAIN closed_trades : closed_trades[k].last_update = "written"

\* C36, the failing case reached: closed_trades holds a position registered
\* by a reinforcement that no sync ever found in a snapshot; it was closed at
\* the broker before the next sync and archived with the profit 0.0 it was
\* registered with.
C36_ArchivedNeverReported ==
  /\ component = "LiveTrader"
  /\ \E k \in DOMAIN closed_trades :
       /\ closed_trades[k].last_update = "absent"
       /\ closed_trades[k].pnl = 0
       /\ closed_trades[k].ticket \notin DOMAIN broker

(* ------------------- C37: the spacing of the cycles --------------------- *)

\* C37 as the claim states it: run starts at clock 0 and its first cycle is
\* due at once; if consecutive cycles are at least cycle_period_seconds apart
\* and cycle_count is incremented once per cycle period, then the cycle
\* counted as number n is not started before (n - 1) periods have elapsed,
\* also after a cycle that raised.
C37_CyclesOnePeriodApart ==
  (cycle_count - 1) * cycle_period_seconds <= wall_time

\* C37, the failing case reached: the first cycle raised, and the second
\* cycle has been started after the backoff, sooner than one cycle period
\* after the first.
C37_CycleAgainAfterBackoff ==
  /\ cycle_count = 2
  /\ \E i \in DOMAIN run_log :
       /\ run_log[i].call = "cycle"
       /\ run_log[i].at = BackoffSeconds
  /\ BackoffSeconds < cycle_period_seconds

(* ------------------- C38: the spacing of the ticks ---------------------- *)

\* C38 as the claim states it: when an iteration that ran a monitoring tick
\* has slept without an exception and the iteration that begins runs a tick
\* again, the two ticks are at least position_update_frequency_seconds apart.
C38_TicksOnePeriodApart ==
  [][(/\ run_pc = "sleeping"
      /\ run_pc' = "loop_top"
      /\ "monitoring" \in CallsOf(run_log)
      /\ MonitoringDue(wall_time'))
       => wall_time' - wall_time >= position_update_frequency_seconds]_vars

\* C38, the failing case reached: an iteration ran a tick and computed a
\* sleep shorter than the monitoring period, because the cycle is due sooner,
\* and the iteration after the sleep will find the tick due again.
C38_TickAgainBeforeCycle ==
  /\ run_pc = "sleeping"
  /\ iterations < MaxIterations
  /\ "monitoring" \in CallsOf(run_log)
  /\ sleep_duration < position_update_frequency_seconds
  /\ MonitoringDue(wall_time + sleep_duration)
  /\ cycle_period_seconds > position_update_frequency_seconds

(* --------------------- C39: the quotes returned ------------------------- *)

\* Calls of the market data function followed for the quotes they return.
MaxQuoteCalls == 2

\* The market data function called for positions in any symbols, whatever
\* the terminal answers.
NextQuotes ==
  \/ MarketDataCallOf(SUBSET QuoteSymbols, Terminals, MaxQuoteCalls)
  \/ CacheTimePasses

SpecQuotes == InitCache /\ [][NextQuotes]_vars

\* The mapping a call returned has entries only for requested symbols, one
\* for every requested symbol the terminal quotes, each with
\* spread = ask - bid.
QuotesMatchRequest(call) ==
  /\ DOMAIN call.returned \subseteq call.requested
  /\ call.connects = "ok" => call.quotable \subseteq DOMAIN call.returned
  /\ \A s \in DOMAIN call.returned :
       call.returned[s].spread = call.returned[s].ask - call.returned[s].bid

\* C39 as the claim states it: the mapping a call returns holds quotes only
\* for the symbols of the positions passed, holds one for each of them the
\* broker has a tick or a recent bar for, also when another call was made
\* less than a second before, and every quote has spread = ask - bid.
C39_QuotesForRequestedSymbols ==
  cache_call # NotCalled => QuotesMatchRequest(cache_call)

\* C39, the failing case reached: a call for a position in USDJPY, which the
\* terminal quotes, returned the mapping an earlier call of the same second
\* had stored: a quote for EURUSD and none for USDJPY.
C39_CachedQuotesOfOtherSymbols ==
  /\ cache_call # NotCalled
  /\ cache_call.outcome = "cache_hit"
  /\ cache_call.connects = "ok"
  /\ cache_call.requested = {"USDJPY"}
  /\ cache_call.quotable = {"USDJPY"}
  /\ DOMAIN cache_call.returned = {"EURUSD"}

\* C39, the part that holds: a call that is not answered from the cache
\* returns what the claim says.
C39_FetchedQuotesMatchRequest ==
  (cache_call # NotCalled /\ cache_call.outcome # "cache_hit")
    => QuotesMatchRequest(cache_call)

(* ------------------------- get_config_value ----------------------------- *)

\* A text is a sequence of characters. A float is the decimal number
\* num / 10^places with no trailing zero in its fraction; texts and defaults
\* have few digits, so no rounding to binary is involved.

DigitChars == <<"0", "1", "2", "3", "4", "5", "6", "7", "8", "9">>
IsDigit(c) == \E d \in DOMAIN DigitChars : DigitChars[d] = c
DigitValue(c) == (CHOOSE d \in DOMAIN DigitChars : DigitChars[d] = c) - 1
Whitespace == {" ", "\t"}

\* str.lower on the letters that occur in the texts.
LowerChar(c) ==
  CASE c = "T" -> "t" [] c = "R" -> "r" [] c = "U" -> "u" [] c = "E" -> "e"
    [] c = "F" -> "f" [] c = "A" -> "a" [] c = "L" -> "l" [] c = "S" -> "s"
    [] c = "O" -> "o" [] c = "N" -> "n" [] c = "Y" -> "y"
    [] OTHER -> c
Lower(text) == [i \in DOMAIN text |-> LowerChar(text[i])]

SetMin(S) == CHOOSE x \in S : \A y \in S : x <= y
SetMax(S) == CHOOSE x \in S : \A y \in S : x >= y

\* raw_value.split('#')[0]: the text before the first '#'.
BeforeComment(text) ==
  LET hashes == {i \in DOMAIN text : text[i] = "#"}
  IN IF hashes = {} THEN text ELSE SubSeq(text, 1, SetMin(hashes) - 1)

\* str.strip: leading and trailing whitespace removed.
Strip(text) ==
  LET inked == {i \in DOMAIN text : text[i] \notin Whitespace}
  IN IF inked = {} THEN <<>> ELSE SubSeq(text, SetMin(inked), SetMax(inked))

\* clean_value.
CleanValue(raw_value) == Strip(BeforeComment(raw_value))

\* The texts the bool branch takes for True.
TrueTexts ==
  {<<"t", "r", "u", "e">>, <<"y", "e", "s">>, <<"1">>, <<"o", "n">>,
   <<"e", "n", "a", "b", "l", "e", "d">>}

RECURSIVE DigitsValue(_)
DigitsValue(digits) ==
  IF digits = <<>> THEN 0
  ELSE 10 * DigitsValue(SubSeq(digits, 1, Len(digits) - 1))
       + DigitValue(digits[Len(digits)])

Pow10(k) == IF k = 0 THEN 1 ELSE IF k = 1 THEN 10 ELSE IF k = 2 THEN 100 ELSE 1000

HasSign(text) == text # <<>> /\ text[1] \in {"+", "-"}
Unsigned(text) == IF HasSign(text) THEN Tail(text) ELSE text
Signed(text, n) == IF HasSign(text) /\ text[1] = "-" THEN 0 - n ELSE n

\* int(text) succeeds: an optional sign and one or more digits (digit
\* separators and other alphabets do not occur in the texts).
IntParses(text) ==
  /\ Unsigned(text) # <<>>
  /\ \A i \in DOMAIN Unsigned(text) : IsDigit(Unsigned(text)[i])
IntOf(text) == Signed(text, DigitsValue(Unsigned(text)))

\* float(text) succeeds: an optional sign, then digits with at most one
\* point and at least one digit (exponents, inf and nan do not occur in the
\* texts).
FloatParses(text) ==
  LET body == Unsigned(text)
      points == {i \in DOMAIN body : body[i] = "."}
  IN /\ Cardinality(points) <= 1
     /\ \E i \in DOMAIN body : IsDigit(body[i])
     /\ \A i \in DOMAIN body : IsDigit(body[i]) \/ body[i] = "."

\* The decimal number num / 10^places without trailing zeros.
RECURSIVE Decimal(_, _)
Decimal(num, places) ==
  IF places > 0 /\ num % 10 = 0 THEN Decimal(num \div 10, places - 1)
  ELSE [type |-> "float", num |-> num, places |-> places]

FloatOf(text) ==
  LET body == Unsigned(text)
      points == {i \in DOMAIN body : body[i] = "."}
      digits == SelectSeq(body, IsDigit)
      places == IF points = {} THEN 0 ELSE Len(body) - SetMin(points)
  IN Decimal(Signed(text, DigitsValue(digits)), places)

BoolValue(b) == [type |-> "bool", value |-> b]
IntValue(n) == [type |-> "int", value |-> n]

\* str(n) for an integer n >= 0.
RECURSIVE DigitsOf(_)
DigitsOf(n) ==
  IF n < 10 THEN <<DigitChars[n + 1]>>
  ELSE Append(DigitsOf(n \div 10), DigitChars[(n % 10) + 1])

\* The digits of n in a field of k digits, zeros in front.
RECURSIVE Padded(_, _)
Padded(n, k) ==
  IF k = 0 THEN <<>> ELSE Append(Padded(n \div 10, k - 1), DigitChars[(n % 10) + 1])

Abs(n) == IF n < 0 THEN 0 - n ELSE n
SignText(n) == IF n < 0 THEN <<"-">> ELSE <<>>

\* str(default): 'True' or 'False', the digits of an int, the shortest
\* decimal text of a float with at least one digit after the point.
StrOf(default) ==
  CASE default.type = "bool" ->
         IF default.value THEN <<"T", "r", "u", "e">>
         ELSE <<"F", "a", "l", "s", "e">>
    [] default.type = "int" ->
         SignText(default.value) \o DigitsOf(Abs(default.value))
    [] default.type = "float" ->
         SignText(default.num)
           \o DigitsOf(Abs(default.num) \div Pow10(default.places))
           \o <<".">>
           \o (IF default.places = 0 THEN <<"0">>
               ELSE Padded(Abs(default.num) % Pow10(default.places),
                           default.places))

\* get_config_value(config, section, key, default), entry being what the
\* config holds under the key: config.get with str(default) as fallback,
\* the comment and the whitespace removed, then the cast to the type of the
\* default; ValueError gives the default.
GetConfigValue(entry, default) ==
  LET raw_value == IF entry.present THEN entry.text ELSE StrOf(default)
      clean_value == CleanValue(raw_value)
  IN CASE default.type = "bool" -> BoolValue(Lower(clean_value) \in TrueTexts)
       [] default.type = "int" ->
            IF IntParses(clean_value) THEN IntValue(IntOf(clean_value))
            ELSE default
       [] default.type = "float" ->
            IF FloatParses(clean_value) THEN FloatOf(clean_value)
            ELSE default

\* The defaults of the calls followed.
ConfigDefaults ==
  {BoolValue(TRUE), BoolValue(FALSE), IntValue(0), IntValue(14), IntValue(-3),
   Decimal(1, 2), Decimal(5, 0), Decimal(-15, 1)}

\* The values a configuration file may hold, without the whitespace and the
\* comment around them.
ConfigBodies ==
  {<<>>, <<"t", "r", "u", "e">>, <<"T", "r", "u", "e">>, <<"F", "a", "l", "s", "e">>,
   <<"f", "a", "l", "s", "e">>, <<"y", "e", "s">>, <<"n", "o">>, <<"O", "N">>,
   <<"o", "f", "f">>, <<"e", "n", "a", "b", "l", "e", "d">>,
   <<"t", "r", "e">>, <<"1">>, <<"0">>, <<"1", "0">>, <<"-", "7">>,
   <<"+", "3">>, <<"3", ".", "5">>, <<"0", ".", "5", "0">>, <<".", "5">>,
   <<"1", ".">>, <<"1", " ", "0">>, <<"-">>, <<"1", ".", "2", ".", "3">>}
ConfigMargins == {<<>>, <<" ">>}
ConfigComments == {<<>>, <<"#", " ", "o", "n">>, <<"#", "1">>}
ConfigTexts ==
  {before \o body \o after \o comment :
     before \in ConfigMargins, body \in ConfigBodies,
     after \in ConfigMargins, comment \in ConfigComments}

ConfigEntries ==
  {[present |-> FALSE]} \cup [present : {TRUE}, text : ConfigTexts]

\* get_config_value returns.
ConfigValueReturns ==
  /\ config_call # NotCalled
  /\ config_result = NotCalled
  /\ config_result' = [called |-> TRUE,
                       value |-> GetConfigValue(config_call.entry,
                                                config_call.default)]
  /\ UNCHANGED <<envVars, pc, eval_log, pmVars, ltVars, cycleVars, runVars,
                 executeVars, dispatchVars, priceVars, cacheVars, config_call>>

NextConfigValue == ConfigValueReturns

\* get_config_value is about to be called.
InitConfigValue ==
  /\ InitLedgers
  /\ component = "LiveTrader"
  /\ Configured(DefaultCyclePeriod, DefaultUpdateFrequency, TRUE)
  /\ RunNotStarted
  /\ execute_task = NotCalled
  /\ execute_result = NotCalled
  /\ trade_decision = NotCalled
  /\ dispatch_result = NotCalled
  /\ NoPriceCall
  /\ EmptyCache
  /\ config_call \in [called : {TRUE}, entry : ConfigEntries,
                      default : ConfigDefaults]
  /\ config_result = NotCalled

SpecConfigValue == InitConfigValue /\ [][NextConfigValue]_vars

(* ------------------- C40: the value get_config_value returns ------------ *)

\* The counterparts of TrueTexts: the texts a reader takes for False.
FalseTexts ==
  {<<"f", "a", "l", "s", "e">>, <<"n", "o">>, <<"0">>, <<"o", "f", "f">>,
   <<"d", "i", "s", "a", "b", "l", "e", "d">>}

\* The cleaned text can be read as a value of the type.
ParsesAs(type, clean_value) ==
  CASE type = "bool" -> Lower(clean_value) \in TrueTexts \cup FalseTexts
    [] type = "int" -> IntParses(clean_value)
    [] type = "float" -> FloatParses(clean_value)

\* C40 as the claim states it: the value returned has the type of the
\* default, and it is the default whenever the key is missing or the text
\* without its comment and surrounding whitespace cannot be parsed as that
\* type, for a bool default too.
C40_TypedValueOrDefault ==
  config_result # NotCalled =>
    /\ config_result.value.type = config_call.default.type
    /\ (\/ ~config_call.entry.present
        \/ ~ParsesAs(config_call.default.type,
                     CleanValue(config_call.entry.text)))
         => config_result.value = config_call.default

\* C40, the failing case reached: the default is True, the key holds a text
\* that is no boolean, and the call returned False.
C40_UnparsableBoolGivesFalse ==
  /\ config_result # NotCalled
  /\ config_call.default = BoolValue(TRUE)
  /\ config_call.entry.present
  /\ CleanValue(config_call.entry.text) = <<"t", "r", "e">>
  /\ config_result.value = BoolValue(FALSE)

\* C40, the part that holds: for an int or float default the claim is met,
\* and a missing key gives the default for every type.
C40_NumberOrMissingKeyAsStated ==
  (config_result # NotCalled
     /\ (config_call.default.type # "bool" \/ ~config_call.entry.present))
    => /\ config_result.value.type = config_call.default.type
       /\ (\/ ~config_call.entry.present
           \/ ~ParsesAs(config_call.default.type,
                        CleanValue(config_call.entry.text)))
            => config_result.value = config_call.default

\* C40, the cleaning: ' 10 # on' read with an int default gives 10, ' 0.50 #1'
\* read with a float default gives 0.5, 'ON #1' read with a bool default
\* gives True.
C40_CommentAndWhitespaceRemoved ==
  config_result # NotCalled /\ config_call.entry.present =>
    /\ (config_call.entry.text = <<" ", "1", "0", " ", "#", " ", "o", "n">>
          /\ config_call.default.type = "int")
         => config_result.value = IntValue(10)
    /\ (config_call.entry.text = <<" ", "0", ".", "5", "0", " ", "#", "1">>
          /\ config_call.default.type = "float")
         => config_result.value = Decimal(5, 1)
    /\ (config_call.entry.text = <<"O", "N", "#", "1">>
          /\ config_call.default.type = "bool")
         => config_result.value = BoolValue(TRUE)

====
